---------------------------- MODULE Spec2Model ----------------------------
(***************************************************************************)
(* A model of serf's HTTP response bucket (buckets/response_buckets.c)     *)
(* and of the TLS encrypt/decrypt pair (ssl_buckets.c).                    *)
(*                                                                         *)
(* Bytes are one-character strings.  apr_status_t values are strings       *)
(* named after the C constants.  Two pseudo statuses stand for calls that  *)
(* do not return a status at all: DOES_NOT_RETURN (the call loops for      *)
(* ever) and CRASH (abort(), or a copy with a negative length).            *)
(***************************************************************************)
EXTENDS Integers, Sequences, FiniteSets, TLC

VARIABLES
    alloc,      \* the memory serf_bucket_mem_alloc handed out (never changes)
    ctx,        \* response_context_t, with the bucket's header metadata
    ret,        \* what the last call on the response bucket returned
    out,        \* the bytes the consumer collected from read/readline
    eofSeen,    \* a read/readline on the response bucket has returned EOF
    errSeen,    \* a call on the response bucket has returned an error
    ssl,        \* serf_ssl_context_t
    enc,        \* the encrypt source stream (plaintext to send)
    dec,        \* the decrypt source stream (ciphertext received)
    sret,       \* what the last ssl_encrypt/ssl_decrypt call returned
    life,       \* a TLS context with the buckets created on it
    lib,        \* the library-initialisation latch and the threads at it
    cert        \* the certificate hooks: their context and the last call

respVars == <<alloc, ctx, ret, out, eofSeen, errSeen>>
sslVars  == <<ssl, enc, dec, sret>>
auxVars  == <<life, lib, cert>>
vars     == <<alloc, ctx, ret, out, eofSeen, errSeen, ssl, enc, dec, sret,
              life, lib, cert>>

---------------------------------------------------------------------------
(* Status codes.                                                           *)

APR_SUCCESS  == "APR_SUCCESS"
APR_EOF      == "APR_EOF"
APR_EAGAIN   == "APR_EAGAIN"
APR_EGENERAL == "APR_EGENERAL"
SERF_ERROR_WAIT_CONN == "SERF_ERROR_WAIT_CONN"
SERF_ERROR_TRUNCATED_HTTP_RESPONSE == "SERF_ERROR_TRUNCATED_HTTP_RESPONSE"
SERF_ERROR_SSL_SETUP_FAILED == "SERF_ERROR_SSL_SETUP_FAILED"
SERF_ERROR_SSL_COMM_FAILED == "SERF_ERROR_SSL_COMM_FAILED"
SERF_ERROR_SSL_CERT_FAILED == "SERF_ERROR_SSL_CERT_FAILED"
SERF_ERROR_SSL_NEGOTIATE_IN_PROGRESS == "SERF_ERROR_SSL_NEGOTIATE_IN_PROGRESS"
DOES_NOT_RETURN == "DOES_NOT_RETURN"
CRASH == "CRASH"

\* SERF_BUCKET_READ_ERROR: a status that is neither success nor flow control.
SERF_BUCKET_READ_ERROR(status) ==
    status \notin {APR_SUCCESS, APR_EOF, APR_EAGAIN, SERF_ERROR_WAIT_CONN}

Min(a, b) == IF a < b THEN a ELSE b

---------------------------------------------------------------------------
(* Bytes.                                                                  *)

CR == "\r"
LF == "\n"
SP == " "
Digits == {"0", "1", "2", "3", "4", "5", "6", "7", "8", "9"}

DigitVal(b) ==
    CASE b = "0" -> 0 [] b = "1" -> 1 [] b = "2" -> 2 [] b = "3" -> 3
      [] b = "4" -> 4 [] b = "5" -> 5 [] b = "6" -> 6 [] b = "7" -> 7
      [] b = "8" -> 8 [] b = "9" -> 9

\* apr_isspace
apr_isspace(b) == b \in {SP, "\t", CR, LF}

\* the limit on the length of a line in the status-line or headers
LINE_LIMIT == 8000

\* apr_size_t is unsigned; the model's integers are narrower than the C
\* ones, so the modulus of apr_size_t is scaled down to 2^30.
SizeMod == 2^30

\* SERF_READ_ALL_AVAIL, the largest apr_size_t
SERF_READ_ALL_AVAIL == SizeMod - 1

\* an apr_int64_t converted to apr_size_t, as in `requested > ctx->body_left`
AsSizeT(n) == n % SizeMod

---------------------------------------------------------------------------
(* The underlying stream: `data` holds the bytes that have arrived and are  *)
(* not yet read, `later` the segments still to arrive, and `eager` tells    *)
(* whether the stream reports EOF together with its last bytes (a simple    *)
(* bucket) or on the read after them.                                       *)

StreamRead(s, requested) ==
    IF Len(s.data) = 0
    THEN [stream |-> s, data |-> <<>>,
          status |-> IF s.later = <<>> THEN APR_EOF ELSE APR_EAGAIN]
    ELSE LET k    == Min(requested, Len(s.data))
             rest == SubSeq(s.data, k + 1, Len(s.data))
         IN [stream |-> [s EXCEPT !.data = rest],
             data   |-> SubSeq(s.data, 1, k),
             status |-> IF rest = <<>> /\ s.later = <<>> /\ s.eager
                        THEN APR_EOF ELSE APR_SUCCESS]

\* peek: the bytes visible now; EOF when what is shown is all there is.
StreamPeek(s) ==
    [data   |-> s.data,
     status |-> IF s.later = <<>> THEN APR_EOF ELSE APR_SUCCESS]

SERF_NEWLINE_ANY == {"CR", "LF", "CRLF"}

\* The line ending in `acceptable` that the visible bytes d[1..n] show at
\* position i, if any: the length of the line and the ending found.
LineEndAt(d, n, acceptable, i) ==
    IF d[i] = CR THEN
        IF i = n THEN
            IF "CRLF" \in acceptable THEN [len |-> i, found |-> "CRLF_SPLIT"]
            ELSE IF "CR" \in acceptable THEN [len |-> i, found |-> "CR"]
            ELSE [len |-> n, found |-> "NONE"]
        ELSE IF d[i + 1] = LF THEN
            IF "CRLF" \in acceptable THEN [len |-> i + 1, found |-> "CRLF"]
            ELSE IF "CR" \in acceptable THEN [len |-> i, found |-> "CR"]
            ELSE IF "LF" \in acceptable THEN [len |-> i + 1, found |-> "LF"]
            ELSE [len |-> n, found |-> "NONE"]
        ELSE IF "CR" \in acceptable THEN [len |-> i, found |-> "CR"]
        ELSE [len |-> n, found |-> "NONE"]
    ELSE IF d[i] = LF /\ "LF" \in acceptable THEN [len |-> i, found |-> "LF"]
    ELSE [len |-> n, found |-> "NONE"]

\* the first of the positions `ends` where a line ends
FirstLineEnd(d, n, acceptable, ends) ==
    IF ends = {} THEN [len |-> n, found |-> "NONE"]
    ELSE LineEndAt(d, n, acceptable,
                   CHOOSE j \in ends : \A k \in ends : j <= k)

\* The scan of the visible bytes d[1..n] for a line ending in `acceptable`,
\* from position i on.
ScanLine(d, n, acceptable, i) ==
    FirstLineEnd(d, n, acceptable,
                 {j \in i..n : LineEndAt(d, n, acceptable, j).found # "NONE"})

ReadlineResult(rd, found) ==
    [stream |-> rd.stream, data |-> rd.data, status |-> rd.status,
     found |-> found]

ReadlineScanned(s, sc) == ReadlineResult(StreamRead(s, sc.len), sc.found)

StreamReadline(s, acceptable) ==
    ReadlineScanned(s, ScanLine(s.data, Len(s.data), acceptable, 1))

---------------------------------------------------------------------------
(* The line buffer ctx->line.  The sequence holds every byte written so    *)
(* far, also the stale ones at and after line_used; a byte that was never  *)
(* written reads as the junk byte the allocation held.                     *)

\* ctx->line[i], i counted from 0 as in C
LineAt(c, i) == IF i < Len(c.line) THEN c.line[i + 1] ELSE c.junk

\* memcpy(&ctx->line[ctx->line_used], data, len)
LineCopy(c, data) ==
    LET pad  == [k \in 1..(c.line_used - Len(c.line)) |-> c.junk]
        head == SubSeq(c.line \o pad, 1, c.line_used)
        tail == SubSeq(c.line, c.line_used + Len(data) + 1, Len(c.line))
    IN head \o data \o tail

\* the logical line: ctx->line[0 .. line_used)
LineText(c) == [k \in 1..c.line_used |-> LineAt(c, k - 1)]

---------------------------------------------------------------------------
(* fetch_line.  The result is the new context and the status returned.     *)

Result(c, status) == [c |-> c, status |-> status]

\* the branch for lstate = LINE_CRLF_SPLIT: peek at one character
SplitPeeked(c, pk) ==
    IF Len(pk.data) > 0
    THEN Result([c EXCEPT !.lstate = "LINE_READY",
                          !.stream = IF pk.data[1] = LF
                                     THEN StreamRead(c.stream, 1).stream
                                     ELSE c.stream],
                pk.status)
    ELSE IF pk.status # APR_SUCCESS THEN Result(c, pk.status)
    \* len = 0 with APR_SUCCESS: nothing changed, the while(1) goes round again
    ELSE Result(c, DOES_NOT_RETURN)

FetchSplit(c) == SplitPeeked(c, StreamPeek(c.stream))

\* the lstate a readline result gives, and the bytes kept of it
LineStateFor(found) ==
    IF found = "NONE" THEN "LINE_PARTIAL"
    ELSE IF found = "CRLF_SPLIT" THEN "LINE_CRLF_SPLIT"
    ELSE "LINE_READY"

KeptLen(found, len) ==
    IF found = "NONE" THEN len
    ELSE IF found = "CRLF_SPLIT" THEN len - 1
    ELSE len - (1 + (IF found = "CRLF" THEN 1 ELSE 0))

\* whether the line is too long for the buffer (line 161)
LineOverflows(c, len) == c.line_used + len > LINE_LIMIT

RECURSIVE FetchLoop(_)

\* the end of one round of the while(1) (line 204)
FetchRound(c) ==
    IF c.lstate = "LINE_READY" THEN Result(c, APR_SUCCESS) ELSE FetchLoop(c)

\* memcpy and line_used += len, with `keep` the len after the newline is
\* taken off (lines 174-197)
FetchKept(c, rl, keep) ==
    FetchRound([c EXCEPT !.stream = rl.stream,
                         !.lstate = LineStateFor(rl.found),
                         !.line = LineCopy(c, SubSeq(rl.data, 1, keep)),
                         !.line_used = c.line_used + keep])

\* the branch that reads a line from the stream (lines 148-198)
FetchRead(c, rl) ==
    IF rl.status # APR_SUCCESS
    THEN Result([c EXCEPT !.stream = rl.stream], rl.status)
    ELSE IF LineOverflows(c, Len(rl.data))
    THEN Result([c EXCEPT !.stream = rl.stream], APR_EGENERAL)
    ELSE FetchKept(c, rl, KeptLen(rl.found, Len(rl.data)))

FetchLoop(c) ==
    IF c.lstate = "LINE_CRLF_SPLIT"
    THEN FetchSplit(c)
    ELSE FetchRead(c, StreamReadline(c.stream, SERF_NEWLINE_ANY))

fetch_line(c) ==
    FetchLoop(IF c.lstate = "LINE_READY"
              THEN [c EXCEPT !.lstate = "LINE_EMPTY", !.line_used = 0]
              ELSE c)

---------------------------------------------------------------------------
(* Library functions the parser calls.                                     *)

RECURSIVE SkipWs(_, _)
SkipWs(buf, i) ==
    IF i <= Len(buf) /\ apr_isspace(buf[i]) THEN SkipWs(buf, i + 1) ELSE i

RECURSIVE ParseDigits(_, _, _)
ParseDigits(buf, i, acc) ==
    IF i <= Len(buf) /\ buf[i] \in Digits
    THEN ParseDigits(buf, i + 1, acc * 10 + DigitVal(buf[i]))
    ELSE [value |-> acc, end |-> i]

\* apr_strtoi64(buf + start - 1, &end, 10) on a buffer that ends at Len(buf):
\* leading white space, an optional sign, then digits.
StrtoiResult(start, j, neg, r) ==
    IF r.end = j THEN [value |-> 0, end |-> start]
    ELSE [value |-> IF neg THEN 0 - r.value ELSE r.value, end |-> r.end]

StrtoiDigits(buf, start, j, neg) ==
    StrtoiResult(start, j, neg, ParseDigits(buf, j, 0))

StrtoiSign(buf, start, i) ==
    IF i <= Len(buf) /\ buf[i] \in {"-", "+"}
    THEN StrtoiDigits(buf, start, i + 1, buf[i] = "-")
    ELSE StrtoiDigits(buf, start, i, FALSE)

apr_strtoi64(buf, start) == StrtoiSign(buf, start, SkipWs(buf, start))

\* apr_date_checkmask(ctx->line, "HTTP/#.# ###*")
StatusMask == <<"H", "T", "T", "P", "/", "#", ".", "#", " ", "#", "#", "#">>

apr_date_checkmask(c) ==
    \A i \in 1..Len(StatusMask) :
        IF StatusMask[i] = "#" THEN LineAt(c, i - 1) \in Digits
        ELSE LineAt(c, i - 1) = StatusMask[i]

\* SERF_HTTP_VERSION(major, minor)
SERF_HTTP_VERSION(major, minor) == major * 1000 + minor

\* The bucket's header metadata: a sequence of (name, value) pairs in the
\* order of insertion.  Names are compared without regard to letter case.
UpperCase == <<"A", "B", "C", "D", "E", "F", "G", "H", "I", "J", "K", "L", "M",
               "N", "O", "P", "Q", "R", "S", "T", "U", "V", "W", "X", "Y", "Z">>
LowerCase == <<"a", "b", "c", "d", "e", "f", "g", "h", "i", "j", "k", "l", "m",
               "n", "o", "p", "q", "r", "s", "t", "u", "v", "w", "x", "y", "z">>

ToLower(b) ==
    IF \E i \in 1..Len(UpperCase) : UpperCase[i] = b
    THEN LowerCase[CHOOSE i \in 1..Len(UpperCase) : UpperCase[i] = b]
    ELSE b

SameName(a, b) ==
    /\ Len(a) = Len(b)
    /\ \A i \in 1..Len(a) : ToLower(a[i]) = ToLower(b[i])

HeadersHas(hdrs, name) == \E i \in 1..Len(hdrs) : SameName(hdrs[i].k, name)

HeadersGet(hdrs, name) ==
    hdrs[CHOOSE i \in 1..Len(hdrs) : SameName(hdrs[i].k, name)].v

\* serf_bucket_set_metadata(bkt, SERF_RESPONSE_HEADERS, k, v)
HeadersSet(hdrs, name, value) ==
    IF HeadersHas(hdrs, name)
    THEN [i \in 1..Len(hdrs) |->
            IF SameName(hdrs[i].k, name)
            THEN [k |-> hdrs[i].k, v |-> hdrs[i].v \o <<",">> \o value]
            ELSE hdrs[i]]
    ELSE Append(hdrs, [k |-> name, v |-> value])

H_ContentLength ==
    <<"C", "o", "n", "t", "e", "n", "t", "-", "L", "e", "n", "g", "t", "h">>

---------------------------------------------------------------------------
(* run_machine.                                                            *)

\* memchr(ctx->line, ':', ctx->line_used): the 0-based index, or -1
ColonAt(c) ==
    IF \E i \in 0..(c.line_used - 1) : LineAt(c, i) = ":"
    THEN CHOOSE i \in 0..(c.line_used - 1) :
            /\ LineAt(c, i) = ":"
            /\ \A j \in 0..(i - 1) : LineAt(c, j) # ":"
    ELSE -1

\* while (apr_isspace(*++c)); from 0-based index i.  The scan does not
\* look at line_used: it runs on over stale bytes, and over bytes never
\* written when those happen to be white space.
RECURSIVE ValueStart(_, _)
ValueStart(c, i) ==
    IF i >= Len(c.line)
    THEN IF apr_isspace(c.junk) THEN Len(c.line) + 1 ELSE i
    ELSE IF apr_isspace(LineAt(c, i)) THEN ValueStart(c, i + 1)
    ELSE i

\* ctx->line[from .. line_used), as serf_bstrmemdup copies it
LineFrom(c, from) ==
    [k \in 1..(c.line_used - from) |-> LineAt(c, from + k - 1)]

\* one header line that is ready in the line buffer (lines 231-251)
HeaderValue(c, colon, vs) ==
    \* serf_bstrmemdup with the negative length line_used - vs
    IF c.line_used - vs < 0 THEN Result(c, CRASH)
    ELSE Result([c EXCEPT !.hdrs = HeadersSet(c.hdrs,
                                      SubSeq(LineText(c), 1, colon),
                                      LineFrom(c, vs))],
                APR_SUCCESS)

\* what the scan for the value did: `over` when it read ctx->line at or
\* after index line_used, `neg` when it stopped after line_used, so that
\* the length of the value is negative (both stay set once they are)
Scanned(c, vs) ==
    [c EXCEPT !.scan = [over |-> @.over \/ vs >= c.line_used,
                        neg  |-> @.neg \/ vs > c.line_used]]

HeaderAt(c, colon) ==
    IF colon < 0 THEN Result(c, APR_EGENERAL)
    ELSE HeaderValue(Scanned(c, ValueStart(c, colon + 1)), colon,
                     ValueStart(c, colon + 1))

ParseHeader(c) == HeaderAt(c, ColonAt(c))

\* the do/while over the header lines (lines 226-253)
RECURSIVE HeadersLoop(_)

HeadersParsed(h) ==
    IF h.status # APR_SUCCESS THEN h ELSE HeadersLoop(h.c)

HeadersFetched(r) ==
    IF r.status # APR_SUCCESS THEN r
    ELSE IF r.c.lstate = "LINE_READY" /\ r.c.line_used # 0
    THEN HeadersParsed(ParseHeader(r.c))
    ELSE r

HeadersLoop(c) == HeadersFetched(fetch_line(c))

\* Are we C-L, chunked, or conn close? (lines 254-269)
ChooseFraming(c) ==
    IF HeadersHas(c.hdrs, H_ContentLength)
    THEN [c EXCEPT !.chunked = 0,
                   !.body_left =
                       apr_strtoi64(HeadersGet(c.hdrs, H_ContentLength), 1).value,
                   !.state = "STATE_BODY"]
    ELSE [c EXCEPT !.state = "STATE_BODY"]

\* case STATE_STATUS_LINE, after fetch_line
MachineStatusLine(r) ==
    IF r.status = APR_SUCCESS
    THEN Result([r.c EXCEPT !.state = "STATE_HEADERS"], APR_SUCCESS)
    ELSE r

\* case STATE_HEADERS, after the do/while
MachineHeaders(r) ==
    IF r.status = APR_SUCCESS
    THEN Result(ChooseFraming(r.c), APR_SUCCESS)
    ELSE r

run_machine(c) ==
    CASE c.state = "STATE_STATUS_LINE" -> MachineStatusLine(fetch_line(c))
      [] c.state = "STATE_HEADERS" -> MachineHeaders(HeadersLoop(c))
      [] c.state = "STATE_BODY" -> Result(c, APR_SUCCESS)
      [] OTHER -> Result(c, CRASH)     \* default: abort()

RECURSIVE wait_for_sline(_)

SlineStep(r) ==
    IF r.status # APR_SUCCESS THEN r ELSE wait_for_sline(r.c)

wait_for_sline(c) ==
    IF c.state # "STATE_STATUS_LINE" THEN Result(c, APR_SUCCESS)
    ELSE SlineStep(run_machine(c))

RECURSIVE wait_for_body(_)

BodyStep(r) ==
    IF r.status # APR_SUCCESS THEN r ELSE wait_for_body(r.c)

wait_for_body(c) ==
    IF c.state = "STATE_BODY" THEN Result(c, APR_SUCCESS)
    ELSE BodyStep(run_machine(c))

---------------------------------------------------------------------------
(* The public operations of the response bucket.  sl_set tells whether     *)
(* ctx->sl was ever assigned; until then it holds what the memory held.    *)

\* the fields of the status line (lines 339-346); `r` is the 0-based index
\* of the reason, rlen the length handed to serf_bstrmemdup
SlineFields(c, code, r) ==
    [version |-> SERF_HTTP_VERSION(DigitVal(LineAt(c, 5)),
                                   DigitVal(LineAt(c, 7))),
     code    |-> code,
     reason  |-> LineFrom(c, r),
     rlen    |-> c.line_used - r]

SlineNumber(c, num) ==
    SlineFields(c, num.value,
                IF apr_isspace(LineAt(c, num.end - 1)) THEN num.end
                ELSE num.end - 1)

ParseStatusLine(c) == SlineNumber(c, apr_strtoi64(c.line \o <<c.junk>>, 9))

StatusReturn(c, status, sline, set) ==
    [c |-> c, status |-> status, sline |-> sline, set |-> set]

StatusParsed(c, p) ==
    \* serf_bstrmemdup with a negative length
    IF p.rlen < 0 THEN StatusReturn(c, CRASH, c.sl, FALSE)
    ELSE StatusReturn([c EXCEPT !.sl = [version |-> p.version,
                                        code |-> p.code,
                                        reason |-> p.reason],
                                !.sl_set = TRUE],
                      APR_SUCCESS,
                      [version |-> p.version, code |-> p.code,
                       reason |-> p.reason],
                      TRUE)

StatusWaited(w) ==
    IF w.status # APR_SUCCESS THEN StatusReturn(w.c, w.status, w.c.sl, FALSE)
    ELSE IF ~apr_date_checkmask(w.c)
    THEN StatusReturn(w.c, APR_EGENERAL, w.c.sl, FALSE)
    ELSE StatusParsed(w.c, ParseStatusLine(w.c))

\* serf_bucket_response_status: the new context, the status and *sline
\* (written only on success)
serf_bucket_response_status(c) ==
    IF c.state # "STATE_STATUS_LINE"
    THEN StatusReturn(c, APR_SUCCESS, c.sl, TRUE)
    ELSE StatusWaited(wait_for_sline(c))

\* if (requested > ctx->body_left) requested = ctx->body_left;
\* the comparison and the assignment are made in apr_size_t
ClampRequested(requested, body_left) ==
    IF requested > AsSizeT(body_left) THEN AsSizeT(body_left) ELSE requested

\* what the body read returns for the status and the data of the stream
\* read, and what is left of the body (lines 370-376)
BodyAccount(c, rv, len) ==
    IF rv = APR_SUCCESS
    THEN [body_left |-> c.body_left - len,
          status    |-> IF c.body_left - len = 0 THEN APR_EOF ELSE APR_SUCCESS]
    ELSE [body_left |-> c.body_left, status |-> rv]

ReadReturn(c, status, data, set) ==
    [c |-> c, status |-> status, data |-> data, set |-> set]

ReadAccounted(c, rd, ac) ==
    ReadReturn([c EXCEPT !.stream = rd.stream, !.body_left = ac.body_left],
               ac.status, rd.data, TRUE)

ReadStream(c, rd) ==
    ReadAccounted(c, rd, BodyAccount(c, rd.status, Len(rd.data)))

ReadWaited(w, requested) ==
    IF w.status # APR_SUCCESS THEN ReadReturn(w.c, w.status, <<>>, FALSE)
    ELSE ReadStream(w.c, StreamRead(w.c.stream,
                                    ClampRequested(requested, w.c.body_left)))

\* serf_response_read: the new context, the status, and *data/*len, which
\* are written (`set`) only when the stream was read
serf_response_read(c, requested) == ReadWaited(wait_for_body(c), requested)

ReadlineStream(c, rl) ==
    [c |-> [c EXCEPT !.stream = rl.stream],
     status |-> rl.status, data |-> rl.data, set |-> TRUE,
     found |-> rl.found]

ReadlineWaited(w, acceptable) ==
    IF w.status # APR_SUCCESS
    THEN [c |-> w.c, status |-> w.status, data |-> <<>>, set |-> FALSE,
          found |-> "NONE"]
    ELSE ReadlineStream(w.c, StreamReadline(w.c.stream, acceptable))

\* serf_response_readline
serf_response_readline(c, acceptable) ==
    ReadlineWaited(wait_for_body(c), acceptable)

---------------------------------------------------------------------------
(* The responses the underlying stream is made to deliver.  Each is a      *)
(* sequence of segments in arrival order, with what the input declares:    *)
(* its framing, the declared length, the body bytes present, the bytes     *)
(* that follow the body, and the header the input is meant to show.        *)

CRLF == <<CR, LF>>
SL_200_OK ==
    <<"H", "T", "T", "P", "/", "1", ".", "1", " ", "2", "0", "0", " ",
      "O", "K">>
SL_BAD ==
    <<"H", "T", "T", "X", "/", "1", ".", "1", " ", "2", "0", "0", " ",
      "O", "K">>
HdrContentLength(d) == H_ContentLength \o <<":", " ", d>>
H_TransferEncoding ==
    <<"T", "r", "a", "n", "s", "f", "e", "r", "-", "E", "n", "c", "o", "d",
      "i", "n", "g">>
HdrChunked ==
    H_TransferEncoding \o <<":", " ", "c", "h", "u", "n", "k", "e", "d">>
H_NoSpace == <<"N", "o", "S", "p", "a", "c", "e">>
H_Allow   == <<"A", "l", "l", "o", "w">>
H_Footer  == <<"F", "o", "o", "t", "e", "r">>

HeadLength(cl) == SL_200_OK \o CRLF \o HdrContentLength(cl) \o CRLF \o CRLF
\* a Content-Length header with the value `v`, a sequence of bytes
HeadLengthValue(v) ==
    SL_200_OK \o CRLF \o H_ContentLength \o <<":", " ">> \o v \o CRLF \o CRLF
HeadChunked == SL_200_OK \o CRLF \o HdrChunked \o CRLF \o CRLF

NoHeader == [k |-> <<>>, v |-> <<>>]

Input(name, segs, framing, n, body, extra, hdr) ==
    [name |-> name, segs |-> segs, framing |-> framing, n |-> n,
     body |-> body, extra |-> extra, hdr |-> hdr]

Inputs ==
    { Input("cl_exact", << HeadLength("2") \o <<"a", "b">> >>,
            "length", 2, <<"a", "b">>, <<>>, NoHeader),
      Input("cl_more", << HeadLength("2") \o <<"a", "b", "c", LF>> >>,
            "length", 2, <<"a", "b">>, <<"c", LF>>, NoHeader),
      Input("cl_zero", << HeadLength("0") >>,
            "length", 0, <<>>, <<>>, NoHeader),
      Input("cl_arrives", << HeadLength("2") \o <<"a">>, <<"b">> >>,
            "length", 2, <<"a", "b">>, <<>>, NoHeader),
      Input("cl_short", << HeadLength("3") \o <<"a", "b">> >>,
            "length", 3, <<"a", "b">>, <<>>, NoHeader),
      Input("crlf_split",
            << SL_200_OK \o <<CR>>,
               <<LF>> \o HdrContentLength("2") \o CRLF \o CRLF \o <<"a", "b">> >>,
            "length", 2, <<"a", "b">>, <<>>, NoHeader),
      Input("chunked",
            << HeadChunked \o <<"2">> \o CRLF \o <<"a", "b">> \o CRLF
               \o <<"0">> \o CRLF \o H_Footer \o <<":", " ", "v">> \o CRLF
               \o CRLF >>,
            "chunked", 2, <<"a", "b">>, <<>>,
            [k |-> H_Footer, v |-> <<"v">>]),
      Input("chunked_short_payload",
            << HeadChunked \o <<"3">> \o CRLF \o <<"a", "b">> >>,
            "chunked", 3, <<"a", "b">>, <<>>, NoHeader),
      Input("chunked_short_size", << HeadChunked \o <<"2">> >>,
            "chunked", 2, <<>>, <<>>, NoHeader),
      Input("chunked_no_crlf",
            << HeadChunked \o <<"2">> \o CRLF \o <<"a", "b">> >>,
            "chunked", 2, <<"a", "b">>, <<>>, NoHeader),
      Input("chunked_half_crlf",
            << HeadChunked \o <<"2">> \o CRLF \o <<"a", "b", CR>> >>,
            "chunked", 2, <<"a", "b">>, <<>>, NoHeader),
      Input("hdr_nospace",
            << SL_200_OK \o CRLF \o H_NoSpace \o <<":">> \o CRLF
               \o HdrContentLength("2") \o CRLF \o CRLF \o <<"a", "b">> >>,
            "length", 2, <<"a", "b">>, <<>>,
            [k |-> H_NoSpace, v |-> <<>>]),
      Input("hdr_allow",
            << SL_200_OK \o CRLF \o H_Allow \o <<":", " ">> \o CRLF
               \o HdrContentLength("2") \o CRLF \o CRLF \o <<"a", "b">> >>,
            "length", 2, <<"a", "b">>, <<>>,
            [k |-> H_Allow, v |-> <<>>]),
      Input("hdr_twice",
            << SL_200_OK \o CRLF \o H_Allow \o <<":", " ", "g">> \o CRLF
               \o <<"a", "L", "L", "O", "W", ":", " ", "h">> \o CRLF
               \o HdrContentLength("2") \o CRLF \o CRLF \o <<"a", "b">> >>,
            "length", 2, <<"a", "b">>, <<>>,
            [k |-> H_Allow, v |-> <<"g", ",", "h">>]),
      Input("close", << SL_200_OK \o CRLF \o CRLF \o <<"a", "b">> >>,
            "close", 2, <<"a", "b">>, <<>>, NoHeader),
      Input("chunked_and_length",
            << SL_200_OK \o CRLF \o HdrChunked \o CRLF
               \o HdrContentLength("9") \o CRLF \o CRLF
               \o <<"2">> \o CRLF \o <<"a", "b">> \o CRLF
               \o <<"0">> \o CRLF \o CRLF >>,
            "both", 2, <<"a", "b">>, <<>>, NoHeader),
      Input("cl_negative", << HeadLengthValue(<<"-", "1">>) \o <<"a", "b">> >>,
            "invalid", -1, <<"a", "b">>, <<>>, NoHeader),
      Input("cl_partial", << HeadLengthValue(<<"1", "x">>) \o <<"a", "b">> >>,
            "invalid", 1, <<"a", "b">>, <<>>, NoHeader),
      Input("cl_word", << HeadLengthValue(<<"x">>) \o <<"a", "b">> >>,
            "invalid", 1, <<"a", "b">>, <<>>, NoHeader),
      Input("bad_status", << SL_BAD \o CRLF \o HdrContentLength("2") \o CRLF
                             \o CRLF \o <<"a", "b">> >>,
            "bad", 2, <<"a", "b">>, <<>>, NoHeader),
      Input("bad_header",
            << SL_200_OK \o CRLF \o H_Allow \o CRLF
               \o HdrContentLength("2") \o CRLF \o CRLF \o <<"a", "b">> >>,
            "bad", 2, <<"a", "b">>, <<>>, NoHeader) }

---------------------------------------------------------------------------
(* The state after serf_bucket_response_create.  The function stores the   *)
(* stream and nothing else: every other field of the context holds what    *)
(* the allocated memory held.                                              *)

GarbageStates ==
    {"STATE_STATUS_LINE", "STATE_HEADERS", "STATE_BODY", "STATE_INVALID"}
GarbageLineStates ==
    {"LINE_EMPTY", "LINE_READY", "LINE_PARTIAL", "LINE_CRLF_SPLIT"}
GarbageSizes == {0, 1}
GarbageInts  == {-1, 0, 1}
NUL == "NUL"
GarbageBytes == {SP, NUL}

\* memory that happens to hold zeroes: the first value of each enum
Zeroed(m) ==
    /\ m.state = "STATE_STATUS_LINE"
    /\ m.lstate = "LINE_EMPTY"
    /\ m.line_used = 0
    /\ m.num = 0
    /\ m.junk = NUL

\* the allocations considered: any garbage in the numbers and the bytes,
\* and at most one of the parser's three fields away from zero
Allocations ==
    { m \in [state : GarbageStates, lstate : GarbageLineStates,
             line_used : GarbageSizes, num : GarbageInts,
             junk : GarbageBytes] :
        \/ m.lstate = "LINE_EMPTY" /\ m.line_used = 0
        \/ m.state = "STATE_STATUS_LINE" /\ m.line_used = 0
        \/ m.state = "STATE_STATUS_LINE" /\ m.lstate = "LINE_EMPTY" }

serf_bucket_response_create(input, eager, mem) ==
    [stream    |-> [data |-> input.segs[1],
                    later |-> SubSeq(input.segs, 2, Len(input.segs)),
                    eager |-> eager],
     state     |-> mem.state,
     lstate    |-> mem.lstate,
     line_used |-> mem.line_used,
     line      |-> <<>>,
     junk      |-> mem.junk,
     sl        |-> [version |-> mem.num, code |-> mem.num,
                    reason |-> <<mem.junk>>],
     chunked   |-> mem.num,
     body_left |-> mem.num,
     hdrs      |-> <<>>,
     scan      |-> [over |-> FALSE, neg |-> FALSE],
     sl_set    |-> FALSE]

\* what a destroy freed: the reason string ("stored" when ctx->sl.reason
\* came from serf_bstrmemdup, "unset" when it was never assigned), the
\* number of header entries, and how often the stream was destroyed
NoFree == [reason |-> "none", hdrs |-> 0, stream |-> 0]

NoCall == [op |-> "none", status |-> APR_SUCCESS, data |-> <<>>,
           set |-> FALSE, sline |-> [version |-> 0, code |-> 0,
                                     reason |-> <<>>],
           arg |-> 0, left |-> 0, consumed |-> 0, freed |-> NoFree]

InitResp ==
    /\ \E input \in Inputs, eager \in BOOLEAN, mem \in Allocations :
          /\ alloc = [input |-> input, mem |-> mem]
          /\ ctx = serf_bucket_response_create(input, eager, mem)
    /\ ret = NoCall
    /\ out = <<>>
    /\ eofSeen = FALSE
    /\ errSeen = FALSE

---------------------------------------------------------------------------
(* Responses whose status line is about as long as the line buffer.  The   *)
(* line is "HTTP/1.1 200 " followed by a reason of x's, `n` bytes in all,  *)
(* then the line ending `eol` and an empty header block; it arrives in     *)
(* one piece, or with the line ending in a second piece.                   *)

LongStatusLine(n) == SubSeq(SL_200_OK, 1, 13) \o [i \in 1..(n - 13) |-> "x"]

LongInput(name, n, eol, pieces) ==
    Input(name,
          IF pieces = 1 THEN << LongStatusLine(n) \o eol \o CRLF >>
          ELSE << LongStatusLine(n), eol \o CRLF >>,
          "long", n, <<>>, <<>>, NoHeader)

LongInputs ==
    { LongInput("crlf_under", LINE_LIMIT - 2, CRLF, 1),
      LongInput("crlf_last", LINE_LIMIT - 1, CRLF, 1),
      LongInput("crlf_full", LINE_LIMIT, CRLF, 1),
      LongInput("crlf_over", LINE_LIMIT + 1, CRLF, 1),
      LongInput("lf_last", LINE_LIMIT - 1, <<LF>>, 1),
      LongInput("lf_full", LINE_LIMIT, <<LF>>, 1),
      LongInput("lf_over", LINE_LIMIT + 1, <<LF>>, 1),
      LongInput("late_last", LINE_LIMIT - 1, CRLF, 2),
      LongInput("late_full", LINE_LIMIT, <<LF>>, 2),
      LongInput("late_over", LINE_LIMIT + 1, <<LF>>, 2) }

\* the allocations considered with them: those whose state field reads as
\* STATE_STATUS_LINE, so that the long line is parsed as a line
LongAllocations == {m \in Allocations : m.state = "STATE_STATUS_LINE"}

InitLongResp ==
    /\ \E input \in LongInputs, eager \in BOOLEAN, mem \in LongAllocations :
          /\ alloc = [input |-> input, mem |-> mem]
          /\ ctx = serf_bucket_response_create(input, eager, mem)
    /\ ret = NoCall
    /\ out = <<>>
    /\ eofSeen = FALSE
    /\ errSeen = FALSE

---------------------------------------------------------------------------
(* The calls a consumer makes on the response bucket.  A call that does    *)
(* not return (it loops, or the process died in it) ends the run.          *)

Alive == ret.status \notin {DOES_NOT_RETURN, CRASH} /\ ret.op # "destroy"

\* the number of bytes of the stream not yet read, arrived or not
RECURSIVE TotalLen(_)
TotalLen(segs) ==
    IF segs = <<>> THEN 0 ELSE Len(segs[1]) + TotalLen(Tail(segs))

Unread(c) == Len(c.stream.data) + TotalLen(c.stream.later)

\* what a call leaves behind: the context, the record of the call, the
\* bytes collected and the two flags
Returned(op, arg, r, data, sline) ==
    /\ ctx' = r.c
    /\ ret' = [op |-> op, status |-> r.status, data |-> data,
               set |-> r.set, sline |-> sline, arg |-> arg,
               left |-> ctx.body_left,
               consumed |-> Unread(ctx) - Unread(r.c),
               freed |-> NoFree]
    /\ out' = IF r.set THEN out \o data ELSE out
    /\ eofSeen' = (eofSeen \/ (op # "get_status" /\ r.status = APR_EOF))
    /\ errSeen' = (errSeen \/ SERF_BUCKET_READ_ERROR(r.status))
    /\ UNCHANGED alloc
    /\ UNCHANGED sslVars
    /\ UNCHANGED auxVars

StatusReturned(r) == Returned("get_status", 0, r, <<>>, r.sline)

GetStatus ==
    /\ Alive
    /\ StatusReturned(serf_bucket_response_status(ctx))

\* the sizes a consumer asks for
MaxReq == 2
Requests == (1..MaxReq) \cup {SERF_READ_ALL_AVAIL}

ReadReturned(requested, r) == Returned("read", requested, r, r.data, ret.sline)

Read ==
    /\ Alive
    /\ \E requested \in Requests :
          ReadReturned(requested, serf_response_read(ctx, requested))

ReadlineReturned(r) == Returned("readline", 0, r, r.data, ret.sline)

Readline ==
    /\ Alive
    /\ \E acceptable \in {SERF_NEWLINE_ANY, {"CRLF"}} :
          ReadlineReturned(serf_response_readline(ctx, acceptable))

\* the next segment arrives on the underlying stream
MoreDataArrived ==
    /\ Alive
    /\ ctx.stream.later # <<>>
    /\ ctx' = [ctx EXCEPT !.stream.data = @ \o ctx.stream.later[1],
                          !.stream.later = Tail(@)]
    /\ UNCHANGED <<alloc, ret, out, eofSeen, errSeen>>
    /\ UNCHANGED sslVars
    /\ UNCHANGED auxVars

\* the pointer line 70 hands to serf_bucket_mem_free
ReasonFreed(c) ==
    IF c.state = "STATE_STATUS_LINE" THEN "none"
    ELSE IF c.sl_set THEN "stored"
    ELSE "unset"

\* the free of a pointer that was never assigned: the process dies of it
\* or goes on with a damaged heap (`dies`)
DestroyDone(c, reason, dies) ==
    IF reason = "unset" /\ dies
    THEN [status |-> CRASH,
          freed |-> [reason |-> reason, hdrs |-> 0, stream |-> 0]]
    ELSE [status |-> APR_SUCCESS,
          freed |-> [reason |-> reason,
                     hdrs |-> IF reason = "none" THEN 0 ELSE Len(c.hdrs),
                     stream |-> 1]]

\* serf_response_destroy_and_data
serf_response_destroy_and_data(c, dies) ==
    DestroyDone(c, ReasonFreed(c), dies)

DestroyReturned(r) ==
    /\ ret' = [NoCall EXCEPT !.op = "destroy", !.status = r.status,
                             !.freed = r.freed]
    /\ UNCHANGED <<alloc, ctx, out, eofSeen, errSeen>>
    /\ UNCHANGED sslVars
    /\ UNCHANGED auxVars

Destroy ==
    /\ Alive
    /\ \E dies \in BOOLEAN :
          DestroyReturned(serf_response_destroy_and_data(ctx, dies))

NextResp == GetStatus \/ Read \/ Readline \/ MoreDataArrived

---------------------------------------------------------------------------
(* The TLS pair.  A state `t` of the pair is the context `ssl` with the    *)
(* two source streams `enc` (plaintext) and `dec` (ciphertext).  The       *)
(* engine is OpenSSL, a collaborator: one engine call is a script, the     *)
(* hooks the engine invokes in order and the result it reports when all    *)
(* of them succeed.  A ciphertext byte is the pair <<"enc", b>> of the     *)
(* plaintext byte b; handshake bytes are "hs".                             *)

Encrypted(bytes) == [i \in 1..Len(bytes) |-> <<"enc", bytes[i]>>]
Decrypted(bytes) == [i \in 1..Len(bytes) |-> bytes[i][2]]

\* the most the engine asks of the read hook in one call
MaxBio == 2

\* detect_renegotiate, called while SSL_state(s) is SSL_ST_RENEGOTIATE
detect_renegotiate(t) ==
    [t EXCEPT !.ssl.renegotiation = 1,
              !.ssl.fatal_err = SERF_ERROR_SSL_NEGOTIATE_IN_PROGRESS]

\* hooks that never look at the renegotiation flag
HookOpen(t) == FALSE

\* the renegotiation check that opens both hooks (lines 325 and 364)
HookRefused(t) == t.ssl.renegotiation # 0

\* bio_bucket_read: the new state and the hook's return value
BioRead(t, rd) ==
    IF SERF_BUCKET_READ_ERROR(rd.status) \/ Len(rd.data) = 0
    THEN [t |-> t, n |-> -1]
    ELSE [t |-> [t EXCEPT !.ssl.eng_in = @ \o rd.data], n |-> Len(rd.data)]

BioReadStatus(t, rd) ==
    BioRead([t EXCEPT !.dec = rd.stream,
                      !.ssl.crypt_status = rd.status,
                      !.ssl.want_read = FALSE,
                      !.ssl.retry = (~SERF_BUCKET_READ_ERROR(rd.status)
                                     /\ rd.status # APR_SUCCESS
                                     /\ rd.status # APR_EOF)],
            rd)

bio_bucket_read(t, inlen) ==
    IF HookRefused(t) THEN [t |-> t, n |-> -1]
    ELSE BioReadStatus(t, StreamRead(t.dec, inlen))

\* a write hook that puts its bucket at the head of encrypt_pending
BioWritePrepends(t, bytes) ==
    IF HookRefused(t) THEN [t |-> t, n |-> -1]
    ELSE [t |-> [t EXCEPT !.ssl.retry = FALSE,
                          !.ssl.crypt_status = APR_SUCCESS,
                          !.ssl.encrypt_pending = bytes \o @,
                          !.ssl.hook_out = @ \o bytes],
          n |-> Len(bytes)]

\* bio_bucket_write
bio_bucket_write(t, bytes) ==
    IF HookRefused(t) THEN [t |-> t, n |-> -1]
    ELSE [t |-> [t EXCEPT !.ssl.retry = FALSE,
                          !.ssl.crypt_status = APR_SUCCESS,
                          !.ssl.encrypt_pending = @ \o bytes,
                          !.ssl.hook_out = @ \o bytes],
          n |-> Len(bytes)]

\* validate_server_certificate when the engine rejected the certificate and
\* no callback is installed (lines 836-839)
VerifyRejected(t) ==
    [t EXCEPT !.ssl.pending_err = SERF_ERROR_SSL_CERT_FAILED]

\* One hook of a script.  `payload` is what a write hook is given.
RunHook(t, hook, payload) ==
    CASE hook = "read"   -> bio_bucket_read(t, MaxBio)
      [] hook = "write"  -> bio_bucket_write(t, payload)
      [] hook = "hello"  -> IF t.ssl.hello_sent THEN [t |-> t, n |-> 0]
                            ELSE bio_bucket_write(
                                     [t EXCEPT !.ssl.hello_sent = TRUE],
                                     <<"hs">>)
      [] hook = "info"   -> [t |-> IF t.ssl.detect THEN detect_renegotiate(t)
                                   ELSE t,
                             n |-> 0]
      [] hook = "verify" -> [t |-> VerifyRejected(t), n |-> 0]

\* The hooks of a script in order; the engine gives up at the first hook
\* that returns -1 and reports WANT_READ when the BIO's retry flag is set,
\* SYSCALL otherwise.
RECURSIVE RunHooks(_, _, _, _)

HookRun(h, hooks, payload, result) ==
    IF h.n < 0
    THEN [t |-> h.t,
          result |-> IF h.t.ssl.retry THEN "WANT_READ" ELSE "SYSCALL"]
    ELSE RunHooks(h.t, Tail(hooks), payload, result)

RunHooks(t, hooks, payload, result) ==
    IF hooks = <<>> THEN [t |-> t, result |-> result]
    ELSE HookRun(RunHook(t, hooks[1], payload), hooks, payload, result)

Script(hooks, result) == [hooks |-> hooks, result |-> result]

\* what the engine may do in one SSL_read
ReadScripts ==
    { Script(<<>>, "OK"),
      Script(<<"read">>, "OK"),
      Script(<<"read">>, "SSL"),
      Script(<<"hello", "read">>, "WANT_READ"),
      Script(<<"read", "verify">>, "SSL"),
      Script(<<"read", "verify">>, "WANT_READ"),
      Script(<<"read", "info", "write">>, "OK"),
      Script(<<"read">>, "ZERO_SHUTDOWN"),
      Script(<<"read">>, "ZERO"),
      Script(<<>>, "WANT_WRITE"),
      Script(<<>>, "OTHER") }

\* what the engine may do in one SSL_write
WriteScripts ==
    { Script(<<"write">>, "OK"),
      Script(<<"hello", "write">>, "OK"),
      Script(<<"hello", "read">>, "WANT_READ"),
      Script(<<"read">>, "SSL"),
      Script(<<"read", "verify">>, "SSL"),
      Script(<<"read", "info", "write">>, "OK"),
      Script(<<>>, "WANT_WRITE"),
      Script(<<>>, "ZERO"),
      Script(<<>>, "OTHER") }

\* a script the engine can follow in state t: it delivers plaintext only
\* from ciphertext it has, verifies certificates only in the handshake,
\* and sends its hello only in the handshake, and only once
ScriptPossible(t, sc) ==
    /\ ("verify" \in {sc.hooks[i] : i \in 1..Len(sc.hooks)}) => t.ssl.in_init
    /\ ("hello" \in {sc.hooks[i] : i \in 1..Len(sc.hooks)}) => t.ssl.in_init

\* an SSL error that latches whatever pending_err holds
SslErrorLatches(t) ==
    [t |-> [t EXCEPT !.ssl.fatal_err = SERF_ERROR_SSL_COMM_FAILED],
     status |-> SERF_ERROR_SSL_COMM_FAILED]

\* an SSL error that reports pending_err and leaves it set
PendingKept(t) ==
    IF t.ssl.pending_err # APR_SUCCESS
    THEN [t |-> t, status |-> t.ssl.pending_err]
    ELSE SslErrorLatches(t)

\* an SSL error that latches pending_err as the fatal error
PendingLatched(t) ==
    IF t.ssl.pending_err # APR_SUCCESS
    THEN [t |-> [t EXCEPT !.ssl.fatal_err = t.ssl.pending_err,
                          !.ssl.pending_err = APR_SUCCESS],
          status |-> t.ssl.pending_err]
    ELSE SslErrorLatches(t)

\* the SSL_ERROR_SSL case of both functions (lines 885-898, 1058-1071)
OnSslError(t) ==
    IF t.ssl.pending_err # APR_SUCCESS
    THEN [t |-> [t EXCEPT !.ssl.pending_err = APR_SUCCESS],
          status |-> t.ssl.pending_err]
    ELSE LET e == IF t.ssl.in_init THEN SERF_ERROR_SSL_SETUP_FAILED
                  ELSE SERF_ERROR_SSL_COMM_FAILED
         IN [t |-> [t EXCEPT !.ssl.fatal_err = e], status |-> e]

\* a context whose latch is never looked at
LatchIgnored(t) == FALSE

\* a fatal error is latched: if (ctx->fatal_err) return ctx->fatal_err;
DecryptLatched(t) == t.ssl.fatal_err # APR_SUCCESS
EncryptLatched(t) == t.ssl.fatal_err # APR_SUCCESS

\* SSL_read(ctx->ssl, buf, bufsize): the engine follows script sc; plaintext
\* comes from the ciphertext the read hook has handed over.  A call that
\* hands out plaintext has finished the handshake.
ReadDelivered(t, k) ==
    [t |-> [t EXCEPT !.ssl.eng_in = SubSeq(@, k + 1, Len(@)),
                     !.ssl.in_init = FALSE,
                     !.ssl.ssl_err = "OK"],
     result |-> "OK",
     data |-> Decrypted(SubSeq(t.ssl.eng_in, 1, k)),
     possible |-> k > 0]

ReadHooked(h, bufsize) ==
    IF h.result = "OK"
    THEN ReadDelivered(h.t, Min(bufsize, Len(h.t.ssl.eng_in)))
    ELSE [t |-> [h.t EXCEPT !.ssl.ssl_err = h.result], result |-> h.result,
          data |-> <<>>, possible |-> TRUE]

SSL_read(t, bufsize, sc) ==
    ReadHooked(RunHooks(t, sc.hooks, <<>>, sc.result), bufsize)

\* SSL_write(ctx->ssl, vecs_data, interim_len); eng_out is the plaintext
\* the engine has accepted so far
WriteHooked(h, bytes) ==
    IF h.result = "OK"
    THEN [t |-> [h.t EXCEPT !.ssl.in_init = FALSE,
                            !.ssl.ssl_err = "OK",
                            !.ssl.eng_out = @ \o bytes],
          result |-> "OK"]
    ELSE [t |-> [h.t EXCEPT !.ssl.ssl_err = h.result], result |-> h.result]

SSL_write(t, bytes, sc) ==
    WriteHooked(RunHooks(t, sc.hooks, Encrypted(bytes), sc.result), bytes)

\* what ssl_decrypt makes of the engine's answer (lines 864-935);
\* `called` counts the engine calls made
DecryptReturn(t, status, data, possible) ==
    [t |-> t, status |-> status, data |-> data, called |-> 1,
     possible |-> possible]

DecryptFatal(t, err) ==
    DecryptReturn([t EXCEPT !.ssl.fatal_err = err], err, <<>>, TRUE)

DecryptSslError(o) == DecryptReturn(o.t, o.status, <<>>, TRUE)

DecryptEngine(e) ==
    CASE e.result = "SYSCALL" ->
            DecryptReturn(e.t, e.t.ssl.crypt_status, <<>>, TRUE)
      [] e.result \in {"WANT_READ", "WANT_WRITE"} ->
            DecryptReturn(e.t, APR_EAGAIN, <<>>, TRUE)
      [] e.result = "SSL" -> DecryptSslError(OnSslError(e.t))
      [] e.result = "OTHER" -> DecryptFatal(e.t, SERF_ERROR_SSL_COMM_FAILED)
      [] e.result = "ZERO_SHUTDOWN" -> DecryptReturn(e.t, APR_EOF, <<>>, TRUE)
      [] e.result = "ZERO" -> DecryptFatal(e.t, SERF_ERROR_SSL_COMM_FAILED)
      [] e.result = "OK" ->
            DecryptReturn(e.t, e.t.ssl.crypt_status, e.data, e.possible)

\* ssl_decrypt
ssl_decrypt(t, bufsize, sc) ==
    IF DecryptLatched(t)
    THEN [t |-> t, status |-> t.ssl.fatal_err, data |-> <<>>, called |-> 0,
          possible |-> TRUE]
    ELSE DecryptEngine(SSL_read([t EXCEPT !.ssl.want_read = FALSE,
                                          !.ssl.crypt_status = APR_SUCCESS],
                                bufsize, sc))

\* a read of the encrypt_pending aggregate: what is there, up to n bytes,
\* with EOF when nothing stays behind
PendingTaken(pending, k) ==
    [rest |-> SubSeq(pending, k + 1, Len(pending)),
     data |-> SubSeq(pending, 1, k),
     status |-> IF k = Len(pending) THEN APR_EOF ELSE APR_SUCCESS]

PendingRead(pending, n) == PendingTaken(pending, Min(n, Len(pending)))

\* serf_bucket_aggregate_prepend(ctx->encrypt.stream, vecs_copy)
PrependBack(t, bytes) == [t EXCEPT !.enc.data = bytes \o @]

\* the do ... while of ssl_encrypt.  The loop calls the engine a second
\* time only when a hook refused the first call with crypt_status clear,
\* which is the renegotiation case: the engine is then where it was and
\* follows script sc again.
RECURSIVE EncryptLoop(_, _, _, _)

LoopReturn(t, status, early, called) ==
    [t |-> t, status |-> status, returned |-> early, called |-> called]

\* while (!status && interim_bufsize)
LoopAgain(t, status, left, sc, called) ==
    IF status = APR_SUCCESS /\ left > 0
    THEN EncryptLoop(t, left, sc, called)
    ELSE LoopReturn(t, status, FALSE, called)

WriteSslError(o, left, sc, called) ==
    LoopAgain(o.t, o.status, left, sc, called)

\* if (ssl_len < 0): the data is put back, then the switch (lines 1027-1076)
WriteFailed(t, result, left, sc, called) ==
    CASE result = "SYSCALL" ->
            IF SERF_BUCKET_READ_ERROR(t.ssl.crypt_status)
            THEN LoopReturn(t, t.ssl.crypt_status, TRUE, called)
            ELSE LoopAgain(t, t.ssl.crypt_status, left, sc, called)
      [] result = "WANT_READ" ->
            LoopAgain([t EXCEPT !.ssl.want_read = TRUE], SERF_ERROR_WAIT_CONN,
                      left, sc, called)
      [] result = "WANT_WRITE" ->
            LoopAgain(t, SERF_ERROR_WAIT_CONN, left, sc, called)
      [] result = "SSL" -> WriteSslError(OnSslError(t), left, sc, called)
      [] result = "OTHER" ->
            LoopAgain([t EXCEPT !.ssl.fatal_err = SERF_ERROR_SSL_COMM_FAILED],
                      SERF_ERROR_SSL_COMM_FAILED, left, sc, called)

\* after SSL_write; `status` is what read_iovec returned
WriteDone(e, bytes, status, left, sc, called) ==
    IF e.result \in {"OK", "ZERO"}
    THEN LoopAgain(e.t, status, left, sc, called)
    ELSE WriteFailed(PrependBack(e.t, bytes), e.result, left, sc, called)

\* after read_iovec on the encrypt stream (lines 988-1086)
EncryptRead(t, rd, interim_bufsize, sc, called) ==
    IF SERF_BUCKET_READ_ERROR(rd.status) \/ rd.data = <<>>
    THEN LoopAgain([t EXCEPT !.enc = rd.stream], rd.status, interim_bufsize,
                   sc, called)
    ELSE WriteDone(SSL_write([t EXCEPT !.enc = rd.stream,
                                       !.ssl.crypt_status = APR_SUCCESS],
                             rd.data, sc),
                   rd.data, rd.status, interim_bufsize - Len(rd.data), sc,
                   called + 1)

\* a loop that reads the encrypt stream whatever want_read says
EncryptLoopEager(t, interim_bufsize, sc, called) ==
    EncryptRead(t, StreamRead(t.enc, interim_bufsize), interim_bufsize,
                sc, called)

EncryptLoop(t, interim_bufsize, sc, called) ==
    IF t.ssl.want_read
    THEN LoopReturn(t, IF t.ssl.crypt_status = APR_SUCCESS THEN APR_EAGAIN
                       ELSE t.ssl.crypt_status, FALSE, called)
    ELSE EncryptRead(t, StreamRead(t.enc, interim_bufsize), interim_bufsize,
                     sc, called)

EncryptReturn(t, status, data, called) ==
    [t |-> [t EXCEPT !.ssl.sent = @ \o data], status |-> status,
     data |-> data, called |-> called]

\* the read of encrypt_pending that ends ssl_encrypt (lines 1101-1122)
EncryptDrained(l, agg) ==
    EncryptReturn([l.t EXCEPT !.ssl.encrypt_pending = agg.rest],
                  IF agg.status = APR_SUCCESS THEN APR_SUCCESS ELSE l.status,
                  agg.data, l.called)

EncryptLooped(l, bufsize) ==
    IF l.returned \/ SERF_BUCKET_READ_ERROR(l.status)
    THEN EncryptReturn(l.t, l.status, <<>>, l.called)
    ELSE EncryptDrained(l, PendingRead(l.t.ssl.encrypt_pending, bufsize))

\* the quick read of encrypt_pending that opens ssl_encrypt (lines 960-977)
EncryptQuick(t, quick, bufsize, sc) ==
    IF quick.data # <<>>
    THEN EncryptReturn([t EXCEPT !.ssl.encrypt_pending = quick.rest],
                       IF quick.status = APR_EOF THEN APR_SUCCESS
                       ELSE quick.status,
                       quick.data, 0)
    ELSE EncryptLooped(EncryptLoop(t, bufsize, sc, 0), bufsize)

\* ssl_encrypt
ssl_encrypt(t, bufsize, sc) ==
    IF EncryptLatched(t)
    THEN EncryptReturn(t, t.ssl.fatal_err, <<>>, 0)
    ELSE EncryptQuick(t, PendingRead(t.ssl.encrypt_pending, bufsize),
                      bufsize, sc)

---------------------------------------------------------------------------
(* The state after ssl_init_context and the creation of one encrypt and    *)
(* one decrypt bucket, and the calls the two databufs make.                *)

\* ssl_init_context; `detect` tells whether detect_renegotiate is the
\* engine's info callback, `config` is the CONN_PIPELINING value of the
\* configuration, ssl_err is what SSL_get_error reports of the last engine
\* call, hook_out is every payload the write hook was given so far and
\* sent every byte ssl_encrypt has returned so far
ssl_init_context(detect) ==
    [pending_err     |-> APR_SUCCESS,
     fatal_err       |-> APR_SUCCESS,
     renegotiation   |-> 0,
     crypt_status    |-> APR_SUCCESS,
     want_read       |-> FALSE,
     encrypt_pending |-> <<>>,
     detect          |-> detect,
     in_init         |-> TRUE,
     retry           |-> FALSE,
     hello_sent      |-> FALSE,
     eng_in          |-> <<>>,
     eng_out         |-> <<>>,
     hook_out        |-> <<>>,
     sent            |-> <<>>,
     ssl_err         |-> "NONE",
     config          |-> "unset"]

\* what serf_config_get_string finds for SERF_CONFIG_CONN_PIPELINING:
\* a value, or nothing (it returns an error status)
Configs == {"Y", "N", "absent"}

\* serf_ssl_set_config
serf_ssl_set_config(c, pipelining) ==
    [c EXCEPT !.config = pipelining,
              !.detect = IF pipelining = "Y" THEN TRUE ELSE @]

\* the plaintext the application sends and the ciphertext the peer sends
Plain  == <<"p1", "p2", "p3">>
Cipher == Encrypted(<<"q1", "q2", "q3">>)

\* how the bytes of a source stream arrive: at once, or in two segments
Arrivals(bytes) ==
    { [data |-> bytes, later |-> <<>>, eager |-> e] : e \in BOOLEAN }
    \cup { [data |-> <<>>, later |-> <<SubSeq(bytes, 1, 1),
                                       SubSeq(bytes, 2, Len(bytes))>>,
            eager |-> e] : e \in BOOLEAN }

NoSslCall == [op |-> "none", status |-> APR_SUCCESS, data |-> <<>>,
              called |-> 0, latched |-> FALSE, fatal |-> APR_SUCCESS,
              encTaken |-> 0, decTaken |-> 0]

SslIdle ==
    /\ ssl = ssl_init_context(FALSE)
    /\ enc = [data |-> <<>>, later |-> <<>>, eager |-> FALSE]
    /\ dec = [data |-> <<>>, later |-> <<>>, eager |-> FALSE]
    /\ sret = NoSslCall

InitSsl ==
    /\ \E pipelining \in Configs :
          ssl = serf_ssl_set_config(ssl_init_context(FALSE), pipelining)
    /\ enc \in Arrivals(Plain)
    /\ dec \in Arrivals(Cipher)
    /\ sret = NoSslCall

Pair == [ssl |-> ssl, enc |-> enc, dec |-> dec]

StreamLeft(s) == Len(s.data) + TotalLen(s.later)

\* the buffer sizes the databufs pass
MaxBuf == 2

\* what a call leaves behind: the pair and the record of the call
SslReturned(op, r) ==
    /\ ssl' = r.t.ssl
    /\ enc' = r.t.enc
    /\ dec' = r.t.dec
    /\ sret' = [op |-> op, status |-> r.status, data |-> r.data,
                called |-> r.called,
                latched |-> ssl.fatal_err # APR_SUCCESS,
                fatal |-> ssl.fatal_err,
                encTaken |-> StreamLeft(enc) - StreamLeft(r.t.enc),
                decTaken |-> StreamLeft(dec) - StreamLeft(r.t.dec)]
    /\ UNCHANGED respVars
    /\ UNCHANGED auxVars

DecryptReturned(r) == r.possible /\ SslReturned("ssl_decrypt", r)

Decrypt ==
    \E bufsize \in 1..MaxBuf, sc \in ReadScripts :
        /\ ScriptPossible(Pair, sc)
        /\ DecryptReturned(ssl_decrypt(Pair, bufsize, sc))

Encrypt ==
    \E bufsize \in 1..MaxBuf, sc \in WriteScripts :
        /\ ScriptPossible(Pair, sc)
        /\ SslReturned("ssl_encrypt", ssl_encrypt(Pair, bufsize, sc))

\* the next segment of plaintext arrives on the encrypt stream
PlainArrived ==
    /\ enc.later # <<>>
    /\ enc' = [enc EXCEPT !.data = @ \o enc.later[1], !.later = Tail(@)]
    /\ UNCHANGED <<ssl, dec, sret>>
    /\ UNCHANGED respVars
    /\ UNCHANGED auxVars

\* the next segment of ciphertext arrives on the decrypt stream
CipherArrived ==
    /\ dec.later # <<>>
    /\ dec' = [dec EXCEPT !.data = @ \o dec.later[1], !.later = Tail(@)]
    /\ UNCHANGED <<ssl, enc, sret>>
    /\ UNCHANGED respVars
    /\ UNCHANGED auxVars

NextSsl == Decrypt \/ Encrypt \/ PlainArrived \/ CipherArrived

---------------------------------------------------------------------------
(* The life of a TLS context: the encrypt and decrypt buckets created on   *)
(* it and destroyed.  Streams are numbered from 1, a bucket carries the    *)
(* number of the stream it was created over, and NoBucket is NULL.  The    *)
(* encrypt_pending aggregates are numbered in the order of their creation. *)
(* `agg` tells whether encrypt.stream is an aggregate bucket, `gone` holds *)
(* the streams that were destroyed, `twice` whether one was destroyed a    *)
(* second time, and `io` what the last read through a bucket met.          *)

NoBucket == 0

\* the most buckets an application creates on one context
MaxCreate == 4

\* no read was made through a bucket yet
NoIo == [op |-> "none", hooks |-> {}, nullPending |-> FALSE,
         stale |-> FALSE, raw |-> FALSE]

\* before the first create there is no context
NoContext ==
    [made |-> FALSE, refcount |-> 0, frees |-> 0, dec |-> NoBucket,
     act |-> NoBucket, agg |-> FALSE, next |-> <<>>, pending |-> NoBucket,
     aggs |-> 0, handles |-> {}, lost |-> 0, streams |-> 0, gone |-> {},
     twice |-> FALSE, crashed |-> FALSE, calls |-> 0, op |-> "none",
     arg |-> NoBucket, result |-> NoBucket, io |-> NoIo]

\* ssl_init_context, as far as the life of the context goes
ContextCreated(l) ==
    [l EXCEPT !.made = TRUE, !.refcount = 0, !.dec = NoBucket,
              !.act = NoBucket, !.next = <<>>,
              !.pending = l.aggs + 1, !.aggs = @ + 1]

\* serf_bucket_ssl_create: the caller passes NULL until it has a context
serf_bucket_ssl_create(l) ==
    IF l.made THEN [l EXCEPT !.refcount = @ + 1]
    ELSE [ContextCreated(l) EXCEPT !.refcount = @ + 1]

\* the bucket an application holds
Handle(id, kind) == [id |-> id, kind |-> kind]

\* the record of a call: its name, the stream or bucket it was given, and
\* the bucket it returned
Called(l, op, arg, result) ==
    [l EXCEPT !.calls = @ + 1, !.op = op, !.arg = arg, !.result = result]

\* serf_bucket_ssl_decrypt_create after serf_bucket_ssl_create: with a
\* decrypt stream already set it returns NULL and the bucket it made stays
\* behind, counted in `lost`
DecryptCreated(c, stream) ==
    IF c.dec # NoBucket
    THEN Called([c EXCEPT !.lost = @ + 1, !.streams = stream],
                "decrypt_create", stream, NoBucket)
    ELSE Called([c EXCEPT !.dec = stream, !.streams = stream,
                          !.handles = @ \cup {Handle(stream, "decrypt")}],
                "decrypt_create", stream, stream)

serf_bucket_ssl_decrypt_create(l, stream) ==
    DecryptCreated(serf_bucket_ssl_create(l), stream)

\* serf_bucket_ssl_encrypt_create after serf_bucket_ssl_create
EncryptCreated(c, stream) ==
    Called([c EXCEPT !.act = IF c.act = NoBucket THEN stream ELSE @,
                     !.agg = IF c.act = NoBucket THEN TRUE ELSE @,
                     !.next = IF c.act = NoBucket THEN @
                              ELSE Append(@, stream),
                     !.streams = stream,
                     !.handles = @ \cup {Handle(stream, "encrypt")}],
           "encrypt_create", stream, stream)

serf_bucket_ssl_encrypt_create(l, stream) ==
    EncryptCreated(serf_bucket_ssl_create(l), stream)

\* ssl_free_context
ssl_free_context(l) == [l EXCEPT !.frees = @ + 1, !.pending = NoBucket]

\* serf_ssl_destroy_and_data: if (!--ctx->ssl_ctx->refcount)
RefDropped(l) == IF l.refcount = 0 THEN ssl_free_context(l) ELSE l

serf_ssl_destroy_and_data(l, b) ==
    RefDropped([l EXCEPT !.refcount = @ - 1, !.handles = @ \ {b}])

\* serf_bucket_destroy(stream)
Destroyed(l, stream) ==
    [l EXCEPT !.gone = @ \cup {stream}, !.twice = @ \/ stream \in l.gone]

\* serf_ssl_decrypt_destroy_and_data; decrypt.stream keeps the pointer
serf_ssl_decrypt_destroy_and_data(l, b) ==
    Called(serf_ssl_destroy_and_data(Destroyed(l, l.dec), b),
           "decrypt_destroy", b.id, NoBucket)

\* Advance to the next stream - if we have one (lines 2076-2090)
StreamAdvanced(l) ==
    IF l.next = <<>>
    THEN [l EXCEPT !.act = NoBucket, !.pending = NoBucket]
    ELSE [l EXCEPT !.act = Head(l.next), !.agg = FALSE, !.next = Tail(@),
                   !.pending = l.aggs + 1, !.aggs = @ + 1]

\* serf_ssl_encrypt_destroy_and_data.  Every encrypt bucket has our_stream
\* = &ssl_ctx->encrypt.stream (line 1756), so the test of line 2068 compares
\* the active stream with itself and the else branch is never taken: the
\* call destroys the active stream and encrypt_pending, whichever bucket
\* it was given.  serf_bucket_destroy(NULL) dereferences NULL.
serf_ssl_encrypt_destroy_and_data(l, b) ==
    IF l.act = NoBucket \/ l.pending = NoBucket
    THEN Called([l EXCEPT !.crashed = TRUE], "encrypt_destroy", b.id,
                NoBucket)
    ELSE Called(serf_ssl_destroy_and_data(
                    StreamAdvanced(Destroyed(l, l.act)), b),
                "encrypt_destroy", b.id, NoBucket)

\* what the engine calls back in one SSL_read or SSL_write
LifeHooks == SUBSET {"read", "write"}

\* bio_bucket_write on this context: line 374 reads
\* ctx->encrypt_pending->allocator, a NULL dereference without the aggregate
HookWrites(l) ==
    IF l.pending = NoBucket
    THEN [l EXCEPT !.io.nullPending = TRUE, !.crashed = TRUE]
    ELSE l

\* bio_bucket_read on this context: line 333 reads ctx->decrypt.stream.  A
\* read of a destroyed bucket uses freed memory: the process dies of it or
\* goes on with what the memory holds (`dies`).
HookReads(l, dies) ==
    IF l.dec = NoBucket THEN [l EXCEPT !.crashed = TRUE]
    ELSE IF l.dec \in l.gone
         THEN [l EXCEPT !.io.stale = TRUE, !.crashed = dies]
         ELSE l

\* the hooks of one engine call
EngineWrote(l, hooks, dies) ==
    IF "read" \in hooks /\ ~l.crashed THEN HookReads(l, dies) ELSE l

EngineRuns(l, hooks, dies) ==
    EngineWrote(IF "write" \in hooks THEN HookWrites(l) ELSE l, hooks, dies)

ReadBegun(l, op, hooks) ==
    [l EXCEPT !.io = [NoIo EXCEPT !.op = op, !.hooks = hooks]]

\* serf_bucket_aggregate_prepend(ctx->encrypt.stream, vecs_copy) after a
\* failed SSL_write (line 1037): on a bucket that is no aggregate it writes
\* through a pointer of the wrong type
PutBack(l, failed, dies) ==
    IF l.crashed \/ ~failed \/ l.agg THEN l
    ELSE [l EXCEPT !.io.raw = TRUE, !.crashed = dies]

\* ssl_encrypt as far as the buckets go: the read of encrypt_pending (line
\* 960), the read_iovec of encrypt.stream (line 988), SSL_write and the
\* put-back
EncryptThrough(l, hooks, failed, dies) ==
    IF l.pending = NoBucket \/ l.act = NoBucket
    THEN [l EXCEPT !.crashed = TRUE]
    ELSE PutBack(EngineRuns(l, hooks, dies), failed, dies)

\* serf_ssl_read on bucket b: serf_databuf_read on the databuf of its side,
\* whose reader is ssl_decrypt or ssl_encrypt
serf_ssl_read(l, b, hooks, failed, dies) ==
    IF b.kind = "decrypt"
    THEN EngineRuns(ReadBegun(l, "decrypt_read", hooks), hooks, dies)
    ELSE EncryptThrough(ReadBegun(l, "encrypt_read", hooks), hooks, failed,
                        dies)

\* the application may still call: the process lives and, if it ever had
\* the context, the context has not been freed
Usable(l) == ~l.crashed /\ l.frees = 0

LifeIdle == life = NoContext

LifeStep(l) ==
    /\ life' = l
    /\ UNCHANGED <<lib, cert>>
    /\ UNCHANGED respVars
    /\ UNCHANGED sslVars

CreateDecrypt ==
    /\ Usable(life)
    /\ life.streams < MaxCreate
    /\ LifeStep(serf_bucket_ssl_decrypt_create(life, life.streams + 1))

CreateEncrypt ==
    /\ Usable(life)
    /\ life.streams < MaxCreate
    /\ LifeStep(serf_bucket_ssl_encrypt_create(life, life.streams + 1))

DestroyDecrypt ==
    /\ Usable(life)
    /\ \E b \in life.handles :
          /\ b.kind = "decrypt"
          /\ LifeStep(serf_ssl_decrypt_destroy_and_data(life, b))

DestroyEncrypt ==
    /\ Usable(life)
    /\ \E b \in life.handles :
          /\ b.kind = "encrypt"
          /\ LifeStep(serf_ssl_encrypt_destroy_and_data(life, b))

ReadBucket ==
    /\ Usable(life)
    /\ \E b \in life.handles, hooks \in LifeHooks, failed \in BOOLEAN,
          dies \in BOOLEAN :
          LifeStep(serf_ssl_read(life, b, hooks, failed, dies))

NextLife ==
    \/ CreateDecrypt
    \/ CreateEncrypt
    \/ DestroyDecrypt
    \/ DestroyEncrypt
    \/ ReadBucket

---------------------------------------------------------------------------
(* init_ssl_libraries, entered by several threads at once.  Each atomic    *)
(* operation on have_init_ssl is one step of the thread that makes it.     *)

INIT_UNINITIALIZED == 0
INIT_BUSY == 1
INIT_DONE == 2

\* the threads that create their first TLS context at the same time
MaxThreads == 3
Threads == 1..MaxThreads

\* static volatile apr_uint32_t have_init_ssl = INIT_UNINITIALIZED; no
\* thread has called yet, and the libraries were loaded `loaded` times
LibStart ==
    [have_init_ssl |-> INIT_UNINITIALIZED,
     pc |-> [th \in Threads |-> "idle"],
     val |-> [th \in Threads |-> INIT_UNINITIALIZED],
     loaded |-> 0]

LibIdle == lib = LibStart

\* apr_atomic_cas32(&have_init_ssl, with, cmp), as thread th does it; val
\* is what the call returns, the value found
apr_atomic_cas32(l, th, with, cmp) ==
    [l EXCEPT !.val[th] = l.have_init_ssl,
              !.have_init_ssl = IF @ = cmp THEN with ELSE @]

\* a waiter that does not wait
WaitSkipped(v) == FALSE

\* while (val != INIT_DONE)
StillWaiting(v) == v # INIT_DONE

LibStep(l) ==
    /\ lib' = l
    /\ UNCHANGED <<life, cert>>
    /\ UNCHANGED respVars
    /\ UNCHANGED sslVars

\* val = apr_atomic_cas32(&have_init_ssl, INIT_BUSY, INIT_UNINITIALIZED);
\* if (!val)
EnterInit ==
    \E th \in Threads :
        /\ lib.pc[th] = "idle"
        /\ LibStep([apr_atomic_cas32(lib, th, INIT_BUSY, INIT_UNINITIALIZED)
                       EXCEPT !.pc[th] =
                           IF lib.have_init_ssl = INIT_UNINITIALIZED
                           THEN "load" ELSE "test"])

\* the body: the libraries are loaded and the lock callbacks installed
LoadLibraries ==
    \E th \in Threads :
        /\ lib.pc[th] = "load"
        /\ LibStep([lib EXCEPT !.loaded = @ + 1, !.pc[th] = "loaded"])

\* apr_atomic_cas32(&have_init_ssl, INIT_DONE, INIT_BUSY); the value it
\* returns is dropped, and the function returns
MarkDone ==
    \E th \in Threads :
        /\ lib.pc[th] = "loaded"
        /\ LibStep([apr_atomic_cas32(lib, th, INIT_DONE, INIT_BUSY)
                       EXCEPT !.val[th] = lib.val[th],
                              !.pc[th] = "returned"])

\* the test of the while loop: sleep, or return
TestDone ==
    \E th \in Threads :
        /\ lib.pc[th] = "test"
        /\ LibStep([lib EXCEPT !.pc[th] = IF StillWaiting(lib.val[th])
                                          THEN "sleep" ELSE "returned"])

\* apr_sleep, then val = apr_atomic_cas32(&have_init_ssl,
\* INIT_UNINITIALIZED, INIT_UNINITIALIZED), which only reads
SleepAndLook ==
    \E th \in Threads :
        /\ lib.pc[th] = "sleep"
        /\ LibStep([apr_atomic_cas32(lib, th, INIT_UNINITIALIZED,
                                     INIT_UNINITIALIZED)
                       EXCEPT !.pc[th] = "test"])

NextLib == EnterInit \/ LoadLibraries \/ MarkDone \/ TestDone \/ SleepAndLook

---------------------------------------------------------------------------
(* The hooks the engine calls about certificates.  `c` is the part of      *)
(* serf_ssl_context_t they use; a hook yields the context it leaves, its   *)
(* return value and the log of what it tried and whom it asked.            *)

NoValue == "NULL"

\* what the hooks return to the engine
Rejected == 0
Accepted == 1
SSL_TLSEXT_ERR_ALERT_FATAL == 2

HookReturn(c, result, log) ==
    [c |-> c, result |-> result, log |-> log, crashed |-> FALSE]

\* the hook used a pointer that was never set: the process dies
HookCrashed(c, log) ==
    [c |-> c, result |-> Rejected, log |-> log, crashed |-> TRUE]

\* an application that is taken to have set a callback
CallbackAssumed(c) == FALSE

\* lines 834-836 and 579-581: the application has set no callback
NoCallbackSet(c) ==
    ~c.server_cert_chain_callback /\ ~c.server_cert_callback

\* the failures validate_server_certificate collects (lines 694-742)
CertFailures(a) ==
    (IF a.cert_valid = Rejected THEN {a.err} ELSE {})
    \cup (IF a.host_ok THEN {} ELSE {"INVALID_HOST"})
    \cup (IF a.dates = "early" THEN {"NOTYETVALID"}
          ELSE IF a.dates = "late" THEN {"EXPIRED"} ELSE {})

\* one callback of validate_server_certificate or ocsp_callback: if it is
\* installed and due, its answer decides validity and, if it is not
\* APR_SUCCESS, becomes pending_err.  v is [c, valid].
CallbackAsked(v, installed, due, answer) ==
    IF ~(installed /\ due) THEN v
    ELSE IF answer = APR_SUCCESS THEN [v EXCEPT !.valid = Accepted]
    ELSE [v EXCEPT !.valid = Rejected, !.c.pending_err = answer]

\* the last test of both hooks: not valid and no callback set
HookVerdict(v) ==
    IF v.valid = Rejected /\ NoCallbackSet(v.c)
    THEN HookReturn([v.c EXCEPT !.pending_err = SERF_ERROR_SSL_CERT_FAILED],
                    v.valid, <<>>)
    ELSE HookReturn(v.c, v.valid, <<>>)

\* validate_server_certificate(cert_valid, store_ctx)
validate_server_certificate(c, a) ==
    HookVerdict(
        CallbackAsked(
            CallbackAsked([c |-> c, valid |-> a.cert_valid],
                          c.server_cert_callback,
                          a.depth = 0 \/ CertFailures(a) # {},
                          a.cert_answer),
            c.server_cert_chain_callback,
            a.depth = 0 \/ CertFailures(a) # {},
            a.chain_answer))

\* the failures ocsp_callback derives from the responder status
OcspFailures(resp) ==
    CASE resp = "SUCCESSFUL" -> {}
      [] resp \in {"MALFORMEDREQUEST", "INTERNALERROR", "SIGREQUIRED",
                   "UNAUTHORIZED"} -> {"RESPONDER_ERROR"}
      [] resp = "TRYLATER" -> {"RESPONDER_TRYLATER"}
      [] OTHER -> {"RESPONDER_UNKNOWN_FAILURE"}

\* ocsp_callback; a.resp is "none" (no stapled response), "unparsable" or
\* the responder status.  cert_valid starts as 0.
ocsp_callback(c, a) ==
    IF a.resp \in {"none", "unparsable"}
    THEN HookReturn(c, SSL_TLSEXT_ERR_ALERT_FATAL, <<>>)
    ELSE HookVerdict(CallbackAsked([c |-> c, valid |-> Rejected],
                                   c.server_cert_callback,
                                   OcspFailures(a.resp) # {},
                                   a.cert_answer))

\* ssl_need_client_cert.  A path names a file that holds a certificate
\* ("good"), one locked by the password "right" ("locked"), one that
\* holds something else ("broken"), or no file that can be opened
\* ("missing"); "wild" is a pointer that was never set.  `answers` is what
\* the certificate callback replies call after call (NULL when it gives
\* up), `pw` what the password callback replies.
RECURSIVE CertLoop(_, _, _, _)

\* the second PKCS12_parse, with a password (lines 1365-1396)
PasswordTried(c, password, log) ==
    CASE password = "wild" -> HookCrashed(c, log)
      [] password = "right" ->
            HookReturn([c EXCEPT !.cached_cert = TRUE], Accepted, log)
      [] OTHER -> HookReturn(c, Rejected, log)

\* PKCS12_R_MAC_VERIFY_FAILURE (lines 1350-1397)
PasswordNeeded(c, pw, log) ==
    IF ~c.cert_pw_callback THEN HookReturn(c, Rejected, log)
    ELSE IF c.cert_pw_success # NoValue
    THEN PasswordTried([c EXCEPT !.cert_pw_success = NoValue],
                       c.cert_pw_success, Append(log, "cached_pw"))
    ELSE PasswordTried(c, pw, Append(log, "ask_pw"))

\* apr_file_open and the first PKCS12_parse (lines 1314-1346)
PathTried(c, path, answers, pw, log) ==
    CASE path = "wild" -> HookCrashed(c, log)
      [] path = "good" ->
            HookReturn([c EXCEPT !.cached_cert = TRUE], Accepted, log)
      [] path = "locked" -> PasswordNeeded(c, pw, log)
      [] OTHER -> CertLoop(c, answers, pw, log)

\* while (ctx->cert_callback)
CertLoop(c, answers, pw, log) ==
    IF ~c.cert_callback THEN HookReturn(c, Rejected, log)
    ELSE IF c.cert_file_success # NoValue
    THEN PathTried([c EXCEPT !.cert_file_success = NoValue],
                   c.cert_file_success, answers, pw,
                   Append(log, "cached_path"))
    ELSE IF answers = <<>> \/ Head(answers) = NoValue
    THEN HookReturn(c, Rejected, Append(log, "ask_path"))
    ELSE PathTried(c, Head(answers), Tail(answers), pw,
                   Append(log, "ask_path"))

ssl_need_client_cert(c, a) ==
    IF c.cached_cert THEN HookReturn(c, Accepted, <<>>)
    ELSE CertLoop(c, a.answers, a.pw, <<>>)

\* what the cache pool holds for "serf:ssl:cert", and what
\* cert_file_success holds when no cache pool was given: ssl_init_context
\* does not set the field, so it is whatever the allocation held
CachedPaths == {NoValue, "good", "locked", "missing"}
GarbagePaths == {NoValue, "missing", "wild"}

\* the same for "serf:ssl:certpw" and cert_pw_success
CachedPasswords == {NoValue, "right", "wrong"}
GarbagePasswords == {NoValue, "wrong", "wild"}

\* the contexts the setters leave (lines 1412-1462): callbacks installed or
\* not; the cached values are read only with the callback installed.  An
\* earlier hook of the handshake may have left an error pending.
CertContexts ==
    { [server_cert_callback |-> s, server_cert_chain_callback |-> ch,
       pending_err |-> e, cached_cert |-> FALSE,
       cert_callback |-> p # "none", cert_file_success |-> p,
       cert_pw_callback |-> w # "none", cert_pw_success |-> w] :
        s \in BOOLEAN, ch \in BOOLEAN, e \in {APR_SUCCESS, APR_EGENERAL},
        p \in {"none"} \cup CachedPaths \cup GarbagePaths,
        w \in {"none"} \cup CachedPasswords \cup GarbagePasswords }

NoHookCall ==
    [op |-> "none", args |-> <<>>, result |-> Accepted, log |-> <<>>,
     crashed |-> FALSE, before |-> <<>>]

CertIdle ==
    cert = [c |-> CHOOSE c \in CertContexts :
                     /\ ~c.server_cert_callback
                     /\ ~c.server_cert_chain_callback
                     /\ ~c.cert_callback /\ ~c.cert_pw_callback
                     /\ c.pending_err = APR_SUCCESS,
            call |-> NoHookCall]

InitCert == \E c \in CertContexts : cert = [c |-> c, call |-> NoHookCall]

\* what the callbacks of the application answer
CallbackAnswers == {APR_SUCCESS, APR_EGENERAL}

VerifyArgs ==
    { [cert_valid |-> v, err |-> e, depth |-> d, host_ok |-> h, dates |-> t,
       cert_answer |-> s, chain_answer |-> ch] :
        v \in {Rejected, Accepted},
        e \in {"NOTYETVALID", "EXPIRED", "SELF_SIGNED", "UNKNOWNCA",
               "REVOKED", "UNABLE_TO_GET_CRL", "UNKNOWN_FAILURE"},
        d \in {0, 1}, h \in BOOLEAN, t \in {"valid", "early", "late"},
        s \in CallbackAnswers, ch \in CallbackAnswers }

OcspArgs ==
    { [resp |-> r, cert_answer |-> s] :
        r \in {"none", "unparsable", "SUCCESSFUL", "MALFORMEDREQUEST",
               "INTERNALERROR", "TRYLATER", "SIGREQUIRED", "UNAUTHORIZED",
               "other"},
        s \in CallbackAnswers }

\* the most replies the certificate callback gives in one call
MaxAnswers == 2
AnswerSeqs(n) == UNION { [1..k -> {NoValue, "good", "locked", "missing"}] :
                         k \in 0..n }

ClientCertArgs ==
    { [answers |-> s, pw |-> w] :
        s \in AnswerSeqs(MaxAnswers), w \in {NoValue, "right", "wrong"} }

\* what a hook call leaves behind
HookCalled(op, a, r) ==
    /\ cert' = [c |-> r.c,
                call |-> [op |-> op, args |-> a, result |-> r.result,
                          log |-> r.log, crashed |-> r.crashed,
                          before |-> cert.c]]
    /\ UNCHANGED <<life, lib>>
    /\ UNCHANGED respVars
    /\ UNCHANGED sslVars

\* the hook call of a run is made on a context no hook has touched
FirstHook == cert.call.op = "none"

Verify ==
    /\ FirstHook
    /\ \E a \in VerifyArgs :
          /\ a.cert_valid = Accepted => a.err = "UNKNOWN_FAILURE"
          /\ HookCalled("verify", a, validate_server_certificate(cert.c, a))

Ocsp ==
    /\ FirstHook
    /\ \E a \in OcspArgs : HookCalled("ocsp", a, ocsp_callback(cert.c, a))

NeedClientCert ==
    /\ FirstHook
    /\ \E a \in ClientCertArgs :
          HookCalled("need_client_cert", a, ssl_need_client_cert(cert.c, a))

NextCert == Verify \/ Ocsp \/ NeedClientCert

---------------------------------------------------------------------------
(* The two specifications: the response bucket over its stream, and the    *)
(* TLS pair.                                                               *)

\* the response bucket as the TLS specification holds it: never called
RespIdle ==
    /\ alloc = [input |-> CHOOSE i \in Inputs : i.name = "cl_exact",
                mem |-> [state |-> "STATE_STATUS_LINE",
                         lstate |-> "LINE_EMPTY", line_used |-> 0,
                         num |-> 0, junk |-> SP]]
    /\ ctx = serf_bucket_response_create(alloc.input, TRUE, alloc.mem)
    /\ ret = NoCall
    /\ out = <<>>
    /\ eofSeen = FALSE
    /\ errSeen = FALSE

AuxIdle == LifeIdle /\ LibIdle /\ CertIdle

Init == InitResp /\ SslIdle /\ AuxIdle
Next == NextResp
Spec == Init /\ [][Next]_vars

\* a consumer that drains the response bucket with read alone
NextDrain == Read \/ MoreDataArrived
SpecDrain == Init /\ [][NextDrain]_vars

InitTls == RespIdle /\ InitSsl /\ AuxIdle
SpecSsl == InitTls /\ [][NextSsl]_vars

\* a consumer that asks for the status or not, reads, and destroys the
\* bucket at any point
NextOwner == GetStatus \/ Read \/ MoreDataArrived \/ Destroy
SpecOwner == Init /\ [][NextOwner]_vars

\* the response bucket over a status line near the limit of the line buffer
InitLong == InitLongResp /\ SslIdle /\ AuxIdle
SpecLong == InitLong /\ [][NextResp]_vars

\* the buckets of one TLS context
InitLife == RespIdle /\ SslIdle /\ AuxIdle
SpecLife == InitLife /\ [][NextLife]_vars

\* the threads at the library initialisation
SpecLib == InitLife /\ [][NextLib]_vars

\* the certificate hooks
InitHooks == RespIdle /\ SslIdle /\ LifeIdle /\ LibIdle /\ InitCert
SpecCert == InitHooks /\ [][NextCert]_vars

---------------------------------------------------------------------------
(* The inputs the properties speak about.                                  *)

\* the segments of a stream, joined
RECURSIVE Joined(_)
Joined(segs) == IF segs = <<>> THEN <<>> ELSE segs[1] \o Joined(Tail(segs))

\* a step in which ssl_encrypt or ssl_decrypt was called and reached the
\* engine (the other steps of the TLS pair are arrivals)
EngineCalled(op) ==
    /\ sret'.op = op
    /\ sret'.called > 0
    /\ enc'.later = enc.later
    /\ dec'.later = dec.later

\* how often a hook's log names x, and whether it names it at all
Count(log, x) == Cardinality({i \in DOMAIN log : log[i] = x})
Logged(log, x) == \E i \in DOMAIN log : log[i] = x

\* the allocation happened to hold zeroes, so the parser starts as a
\* constructor would have set it
CleanStart == Zeroed(alloc.mem)

\* a segment that is not the last ends in a CR
SplitsCrlf(i) ==
    \E k \in 1..(Len(i.segs) - 1) :
        Len(i.segs[k]) > 0 /\ i.segs[k][Len(i.segs[k])] = CR

LengthTruncated(i) == i.framing = "length" /\ Len(i.body) < i.n

WellFormedLength(i) ==
    /\ i.framing = "length"
    /\ Len(i.body) = i.n
    /\ i.hdr = NoHeader
    /\ ~SplitsCrlf(i)

ChunkedComplete(i) == i.framing = "chunked" /\ i.hdr # NoHeader
ChunkedTruncated(i) == i.framing = "chunked" /\ i.hdr = NoHeader
HeaderInput(i) == i.framing = "length" /\ i.hdr # NoHeader

IsPrefix(a, b) == Len(a) <= Len(b) /\ a = SubSeq(b, 1, Len(a))

---------------------------------------------------------------------------
(* Properties.                                                             *)

\* C1: for a length-framed response whose stream ends before the declared
\* number of body bytes, no read on the response bucket returns EOF (the
\* drain ends with TRUNCATED_HTTP_RESPONSE).
C1_TruncatedLengthNeverEof ==
    (CleanStart /\ LengthTruncated(alloc.input) /\ ret.op = "read")
        => ret.status # APR_EOF

\* C2: for a well-formed Content-Length response, reads return the body
\* bytes in order and once, at most the requested number per call, then
\* EOF; every EOF or success comes with its data, body_left is never
\* negative, and the bytes after the body stay in the stream.
C2_LengthBodyExact ==
    (CleanStart /\ WellFormedLength(alloc.input) /\ ret.op = "read")
        => /\ ~SERF_BUCKET_READ_ERROR(ret.status)
           /\ ret.status \in {APR_SUCCESS, APR_EOF} => ret.set
           /\ ret.set => Len(ret.data) <= ret.arg
           /\ IsPrefix(out, alloc.input.body)
           /\ ret.status = APR_EOF => out = alloc.input.body
           /\ ctx.state = "STATE_BODY" => ctx.body_left >= 0
           /\ Unread(ctx) >= Len(alloc.input.extra)

\* C3: for a chunked response, the drain yields the chunk payloads and then
\* EOF, and the trailing header is in the header map after the drain.
C3_ChunkedBodyAndTrailers ==
    (CleanStart /\ ChunkedComplete(alloc.input) /\ ret.op = "read")
        => /\ IsPrefix(out, alloc.input.body)
           /\ ret.status = APR_EOF =>
                 /\ out = alloc.input.body
                 /\ HeadersHas(ctx.hdrs, alloc.input.hdr.k)

\* C4: for a chunked response whose stream ends inside a chunk, inside a
\* size line or before the CRLF after a payload, no read returns EOF.
C4_TruncatedChunkedNeverEof ==
    (CleanStart /\ ChunkedTruncated(alloc.input) /\ ret.op = "read")
        => ret.status # APR_EOF

\* C5: for the status line "HTTP/1.1 200 OK", get_status returns success
\* (or EAGAIN while the line has not arrived), and with success it hands
\* out version 1001, code 200 and reason "OK".
C5_StatusLineParsed ==
    (CleanStart /\ alloc.input.framing # "bad" /\ ~SplitsCrlf(alloc.input)
       /\ ret.op = "get_status")
        => /\ ret.status \in {APR_SUCCESS, APR_EAGAIN}
           /\ ret.status = APR_SUCCESS =>
                 ret.sline = [version |-> 1001, code |-> 200,
                              reason |-> <<"O", "K">>]

\* C6: every read returns; with the line buffer in crlf_split and no byte
\* to peek at, the read returns instead of looping.
C6_ReadReturns ==
    (CleanStart /\ ret.op = "read") => ret.status # DOES_NOT_RETURN

\* C7: a header line is split at its first colon, the value has its
\* leading white space stripped, and "Name:" and "Name: " are stored with
\* the empty value.
C7_HeaderSplit ==
    (CleanStart /\ HeaderInput(alloc.input) /\ ret.op = "read")
        => /\ ret.status # CRASH
           /\ ctx.state = "STATE_BODY" =>
                 /\ HeadersHas(ctx.hdrs, alloc.input.hdr.k)
                 /\ HeadersGet(ctx.hdrs, alloc.input.hdr.k)
                        = alloc.input.hdr.v

\* C8: once fatal_err is not success it stays as it is, and every later
\* ssl_encrypt or ssl_decrypt returns it without calling the engine and
\* without taking a byte from either source stream.
C8_FatalLatched ==
    [][ssl.fatal_err # APR_SUCCESS
         => /\ ssl'.fatal_err = ssl.fatal_err
            /\ StreamLeft(enc') = StreamLeft(enc)
            /\ StreamLeft(dec') = StreamLeft(dec)
            /\ sret' # sret =>
                  /\ sret'.status = ssl.fatal_err
                  /\ sret'.called = 0
                  /\ sret'.encTaken = 0
                  /\ sret'.decTaken = 0]_vars

\* a call was made on a latched context while both streams still held bytes
C8_Witness ==
    /\ sret.latched
    /\ sret.op \in {"ssl_encrypt", "ssl_decrypt"}
    /\ sret.status = ssl.fatal_err
    /\ StreamLeft(enc) > 0
    /\ StreamLeft(dec) > 0

\* C9: after the response bucket returned a parse or framing error, no
\* later call on it returns success or data.
C9_DeadAfterError ==
    [][(CleanStart /\ errSeen /\ ret' # ret)
         => /\ SERF_BUCKET_READ_ERROR(ret'.status)
            /\ out' = out]_vars

\* C10: after a read or readline returned EOF, every later read or
\* readline returns EOF with no bytes and takes nothing from the stream
\* (stated for the length-framed inputs).
C10_EofIsFinal ==
    [][(CleanStart /\ alloc.input.framing = "length" /\ eofSeen
          /\ ret' # ret /\ ret'.op \in {"read", "readline"})
         => /\ ret'.status = APR_EOF
            /\ ret'.data = <<>>
            /\ ret'.consumed = 0]_vars

\* C11: the refcount of a TLS context equals the number of live encrypt
\* and decrypt buckets on it (created, handed to the application and not
\* yet destroyed), and the context is freed exactly once, at the destroy
\* that drops the last of them, and never earlier.
C11_RefcountIsLiveBuckets ==
    life.made =>
        /\ life.refcount = Cardinality(life.handles)
        /\ life.frees = IF life.handles = {} THEN 1 ELSE 0

\* C14: an encrypt bucket created while a source is active appends its
\* stream to the tail of stream_next; the destroy of the active source
\* makes the head of the queue the active source, removes it from the
\* queue and installs a fresh encrypt_pending; with an empty queue the
\* active source becomes none.
C14_EncryptSourcesFifo ==
    [][life'.calls # life.calls =>
         /\ (life'.op = "encrypt_create" /\ life.act # NoBucket)
               => /\ life'.next = Append(life.next, life'.arg)
                  /\ life'.act = life.act
         /\ life'.op = "encrypt_destroy"
               => IF life.next # <<>>
                  THEN /\ life'.act = Head(life.next)
                       /\ life'.next = Tail(life.next)
                       /\ life'.pending > life.aggs
                  ELSE /\ life'.act = NoBucket
                       /\ life'.next = <<>>]_vars

\* C12: however many threads enter init_ssl_libraries at once, the body
\* is executed at most once, and exactly once before any of them returns;
\* the latch only moves UNINITIALIZED -> BUSY -> DONE; no caller has
\* returned while the latch is not DONE.
C12_InitOnce ==
    /\ [](/\ lib.loaded <= 1
          /\ \A th \in Threads :
                lib.pc[th] = "returned"
                   => lib.have_init_ssl = INIT_DONE /\ lib.loaded = 1)
    /\ [][\/ lib'.have_init_ssl = lib.have_init_ssl
          \/ /\ lib.have_init_ssl = INIT_UNINITIALIZED
             /\ lib'.have_init_ssl = INIT_BUSY
          \/ /\ lib.have_init_ssl = INIT_BUSY
             /\ lib'.have_init_ssl = INIT_DONE]_vars

\* one thread sleeps on the busy latch while another is in the body and
\* a third has not called yet
C12_Witness ==
    \E a \in Threads, b \in Threads, c \in Threads :
        /\ lib.have_init_ssl = INIT_BUSY
        /\ lib.pc[a] = "sleep"
        /\ lib.pc[b] = "load"
        /\ lib.pc[c] = "idle"

\* C13: the plaintext the engine has accepted in successful writes,
\* followed by what is left of the encrypt source stream (bytes put back
\* after a rejected write included), is the content of the source stream:
\* no byte is lost and none is written twice.
C13_PlaintextPreserved ==
    ssl.eng_out \o enc.data \o Joined(enc.later) = Plain

\* C15: ssl_decrypt makes one engine read and maps its outcome: WANT_READ
\* and WANT_WRITE give AGAIN with no bytes; a zero return with
\* RECEIVED_SHUTDOWN gives EOF; a zero return otherwise latches
\* SSL_COMM_FAILED; a syscall failure gives crypt_status; an SSL error
\* gives pending_err (and clears it) if one is set, and otherwise latches
\* SSL_SETUP_FAILED in the handshake and SSL_COMM_FAILED after it.
C15_DecryptMapsEngine ==
    [][EngineCalled("ssl_decrypt") =>
         /\ sret'.called = 1
         /\ ssl'.ssl_err \in {"WANT_READ", "WANT_WRITE"}
               => sret'.status = APR_EAGAIN /\ sret'.data = <<>>
         /\ ssl'.ssl_err = "ZERO_SHUTDOWN" => sret'.status = APR_EOF
         /\ ssl'.ssl_err = "ZERO"
               => /\ ssl'.fatal_err = SERF_ERROR_SSL_COMM_FAILED
                  /\ sret'.status = SERF_ERROR_SSL_COMM_FAILED
         /\ ssl'.ssl_err = "SYSCALL" => sret'.status = ssl'.crypt_status
         /\ ssl'.ssl_err = "SSL"
               => /\ ssl'.pending_err = APR_SUCCESS
                  /\ \/ /\ sret'.status \in {ssl.pending_err,
                                             SERF_ERROR_SSL_CERT_FAILED}
                        /\ sret'.status # APR_SUCCESS
                        /\ ssl'.fatal_err = ssl.fatal_err
                     \/ /\ ssl.pending_err = APR_SUCCESS
                        /\ sret'.status = ssl'.fatal_err
                        /\ ssl'.fatal_err =
                              IF ssl.in_init
                              THEN SERF_ERROR_SSL_SETUP_FAILED
                              ELSE SERF_ERROR_SSL_COMM_FAILED]_vars

\* ssl_decrypt has returned the pending certificate error of an SSL error
C15_Witness ==
    /\ sret.op = "ssl_decrypt"
    /\ sret.called = 1
    /\ ssl.ssl_err = "SSL"
    /\ sret.status = SERF_ERROR_SSL_CERT_FAILED
    /\ ssl.fatal_err = APR_SUCCESS

\* C16: when the engine's write reports WANT_READ, ssl_encrypt sets
\* want_read and returns WAIT_CONN; when it reports WANT_WRITE,
\* ssl_encrypt returns WAIT_CONN; when the write returns zero, ssl_encrypt
\* returns EOF.
C16_EncryptMapsEngine ==
    [][EngineCalled("ssl_encrypt") =>
         /\ ssl'.ssl_err = "WANT_READ"
               => ssl'.want_read /\ sret'.status = SERF_ERROR_WAIT_CONN
         /\ ssl'.ssl_err = "WANT_WRITE"
               => sret'.status = SERF_ERROR_WAIT_CONN
         /\ ssl'.ssl_err = "ZERO" => sret'.status = APR_EOF]_vars

\* C17: detect_renegotiate is installed only when CONN_PIPELINING is "Y";
\* once it has seen a renegotiation, renegotiation is set and fatal_err is
\* SSL_NEGOTIATE_IN_PROGRESS, and both hooks return failure at once: the
\* decrypt source, encrypt_pending and crypt_status stay as they are.
C17_RenegotiationRefused ==
    /\ ssl.detect => ssl.config = "Y"
    /\ ssl.renegotiation # 0 =>
          /\ ssl.detect
          /\ ssl.fatal_err = SERF_ERROR_SSL_NEGOTIATE_IN_PROGRESS
          /\ \A inlen \in 1..MaxBio :
                bio_bucket_read(Pair, inlen) = [t |-> Pair, n |-> -1]
          /\ \A k \in 1..Len(Plain) :
                bio_bucket_write(Pair, Encrypted(SubSeq(Plain, 1, k)))
                   = [t |-> Pair, n |-> -1]

\* a renegotiation was seen while ciphertext still waits on the decrypt
\* source
C17_Witness ==
    /\ ssl.renegotiation # 0
    /\ sret.called > 0
    /\ dec.data # <<>>

\* C18: with neither the server-cert callback nor the chain callback
\* installed, the verification hook rejects a certificate the engine
\* rejected and sets pending_err to SSL_CERT_FAILED, and accepts a
\* certificate the engine accepted and leaves pending_err as it was.
C18_VerifyWithoutCallbacks ==
    (/\ cert.call.op = "verify"
     /\ ~cert.call.before.server_cert_callback
     /\ ~cert.call.before.server_cert_chain_callback)
       => IF cert.call.args.cert_valid = Rejected
          THEN /\ cert.call.result = Rejected
               /\ cert.c.pending_err = SERF_ERROR_SSL_CERT_FAILED
          ELSE /\ cert.call.result = Accepted
               /\ cert.c.pending_err = cert.call.before.pending_err

\* the hook has rejected, without callbacks, a certificate the engine
\* rejected while no error was pending
C18_Witness ==
    /\ cert.call.op = "verify"
    /\ ~cert.call.before.server_cert_callback
    /\ ~cert.call.before.server_cert_chain_callback
    /\ cert.call.before.pending_err = APR_SUCCESS
    /\ cert.call.args.cert_valid = Rejected
    /\ cert.call.result = Rejected
    /\ cert.c.pending_err = SERF_ERROR_SSL_CERT_FAILED

\* C19: when the engine asks for a client certificate, a cached path and a
\* cached password are each tried first and at most once; if the cached
\* path cannot be opened the certificate callback is asked, and if the
\* cached password does not unlock the certificate the password callback
\* is asked, instead of the request failing.
C19_CachedThenPrompt ==
    (cert.call.op = "need_client_cert" /\ ~cert.call.crashed) =>
        /\ Count(cert.call.log, "cached_path") <= 1
        /\ Count(cert.call.log, "cached_pw") <= 1
        /\ Logged(cert.call.log, "cached_path")
              => /\ cert.call.log[1] = "cached_path"
                 /\ cert.c.cert_file_success = NoValue
                 /\ cert.call.before.cert_file_success = "missing"
                       => Logged(cert.call.log, "ask_path")
        /\ Logged(cert.call.log, "cached_pw")
              => /\ cert.c.cert_pw_success = NoValue
                 /\ cert.call.before.cert_pw_success # "right"
                       => Logged(cert.call.log, "ask_pw")

\* C20: ocsp_callback returns 1 for a stapled response whose responder
\* status is SUCCESSFUL and leaves pending_err alone; it returns 0 only
\* for a missing or unparsable response or for a failing responder status
\* that the application callback did not accept.
C20_OcspAcceptsSuccessful ==
    cert.call.op = "ocsp" =>
        /\ cert.call.args.resp = "SUCCESSFUL"
              => /\ cert.call.result = Accepted
                 /\ cert.c.pending_err = cert.call.before.pending_err
        /\ cert.call.result = Rejected
              => \/ cert.call.args.resp \in {"none", "unparsable"}
                 \/ /\ cert.call.args.resp # "SUCCESSFUL"
                    /\ ~(/\ cert.call.before.server_cert_callback
                         /\ cert.call.args.cert_answer = APR_SUCCESS)

\* the status line every well-formed input carries, parsed
ParsedStatusLine == [version |-> 1001, code |-> 200, reason |-> <<"O", "K">>]

\* C21: on entering BODY the framing is chunked when Transfer-Encoding
\* names chunked (also when Content-Length is present as well); and with
\* neither header the response is close-delimited: the reads hand out the
\* stream's bytes up to its EOF, not limited by body_left.
C21_FramingChosen ==
    (CleanStart /\ ret.op = "read" /\ ctx.state = "STATE_BODY")
        => /\ alloc.input.framing \in {"chunked", "both"} => ctx.chunked = 1
           /\ alloc.input.framing = "close" =>
                 /\ IsPrefix(out, alloc.input.body)
                 /\ ret.status = APR_EOF => out = alloc.input.body

\* C22: a Content-Length value with a sign, without digits or with bytes
\* after its digits does not select length framing: body_left is never
\* negative, no read hands out more than was asked for, and the body is
\* not cut at a number taken from part of the value.
C22_LengthValueValidated ==
    (CleanStart /\ alloc.input.framing = "invalid" /\ ret.op = "read")
        => /\ ctx.state = "STATE_BODY" => ctx.body_left >= 0
           /\ ret.set => Len(ret.data) <= ret.arg
           /\ ret.status = APR_EOF => out = alloc.input.body

\* C24: the bucket serf_bucket_response_create returns is in state
\* STATUS_LINE with an empty line buffer of used length 0, as long as no
\* operation was applied to it.
C24_CreatedInStatusLine ==
    ret.op = "none" =>
        /\ ctx.state = "STATE_STATUS_LINE"
        /\ ctx.lstate = "LINE_EMPTY"
        /\ ctx.line_used = 0

\* C27: a readline on the response bucket in BODY state of a
\* length-framed response returns no more bytes than are left of the
\* body, subtracts them from body_left and reports EOF with the last one.
C27_ReadlineFramed ==
    [][(CleanStart /\ WellFormedLength(alloc.input)
          /\ ctx.state = "STATE_BODY"
          /\ ret' # ret /\ ret'.op = "readline" /\ ret'.set)
         => /\ Len(ret'.data) <= ctx.body_left
            /\ ctx'.body_left = ctx.body_left - Len(ret'.data)
            /\ ctx'.body_left = 0 => ret'.status = APR_EOF]_vars

\* C28: a get_status that returns success hands out the parsed status
\* line of the input also when an earlier read or readline has already
\* moved the parser past STATUS_LINE.
C28_StatusInAnyOrder ==
    [][(CleanStart /\ alloc.input.framing # "bad" /\ ~SplitsCrlf(alloc.input)
          /\ ctx.state # "STATE_STATUS_LINE"
          /\ ret' # ret /\ ret'.op = "get_status")
         => /\ ret'.status = APR_SUCCESS
            /\ ret'.sline = ParsedStatusLine]_vars

\* the name of the repeated header in another letter case
H_allow == <<"a", "l", "l", "o", "w">>

\* C25: for a response with two header lines of the same name in
\* different letter case, the header map of the response, once the
\* headers are read, holds for that name, in any letter case, the two
\* values joined by a comma in arrival order.
C25_SameNameJoined ==
    (alloc.input.name = "hdr_twice" /\ ret.op = "read"
       /\ ctx.state = "STATE_BODY")
        => /\ HeadersHas(ctx.hdrs, H_Allow)
           /\ HeadersGet(ctx.hdrs, H_Allow) = alloc.input.hdr.v
           /\ HeadersGet(ctx.hdrs, H_allow) = alloc.input.hdr.v

\* C23: the used length of the line buffer never exceeds LINE_LIMIT, and
\* a get_status that reads the status line refuses it as too long exactly
\* when its content, without the line ending, is longer than LINE_LIMIT:
\* a line of at most LINE_LIMIT bytes is accepted.
C23_LineLimit ==
    /\ [](CleanStart => ctx.line_used <= LINE_LIMIT)
    /\ [][(CleanStart /\ ~errSeen /\ ctx.state = "STATE_STATUS_LINE"
             /\ ret' # ret /\ ret'.op = "get_status")
            => IF alloc.input.n <= LINE_LIMIT
               THEN ret'.status \in {APR_SUCCESS, APR_EAGAIN}
               ELSE ret'.status \in {APR_EGENERAL, APR_EAGAIN}]_vars

\* C26: ssl_decrypt returns no bytes only together with AGAIN, EOF or an
\* error, never with APR_SUCCESS, also when a hook of the engine failed
\* without setting crypt_status.
C26_NoBytesNeverOk ==
    (sret.op = "ssl_decrypt" /\ sret.data = <<>>)
        => sret.status # APR_SUCCESS

\* C29: a call of ssl_encrypt or ssl_decrypt in which the engine reports
\* an SSL error while pending_err is set returns pending_err, resets it
\* and leaves fatal_err as it was; a call in which the engine reports
\* anything else does not return pending_err and does not reset it.
C29_PendingReportedOnce ==
    [][(EngineCalled("ssl_encrypt") \/ EngineCalled("ssl_decrypt"))
         => IF ssl'.ssl_err = "SSL"
            THEN /\ ssl'.pending_err = APR_SUCCESS
                 /\ ssl.pending_err # APR_SUCCESS
                       => /\ sret'.status = ssl.pending_err
                          /\ ssl'.fatal_err = ssl.fatal_err
                 /\ \/ /\ sret'.status = SERF_ERROR_SSL_CERT_FAILED
                       /\ ssl'.fatal_err = ssl.fatal_err
                    \/ /\ sret'.status = ssl'.fatal_err
                       /\ ssl'.fatal_err \in {SERF_ERROR_SSL_SETUP_FAILED,
                                              SERF_ERROR_SSL_COMM_FAILED}
            ELSE /\ sret'.status # SERF_ERROR_SSL_CERT_FAILED
                 /\ ssl.pending_err # APR_SUCCESS
                       => ssl'.pending_err = ssl.pending_err]_vars

\* ssl_encrypt has returned the error the verification hook left pending,
\* and the context is not latched
C29_Witness ==
    /\ sret.op = "ssl_encrypt"
    /\ sret.called > 0
    /\ ssl.ssl_err = "SSL"
    /\ sret.status = SERF_ERROR_SSL_CERT_FAILED
    /\ ssl.pending_err = APR_SUCCESS
    /\ ssl.fatal_err = APR_SUCCESS

\* C30: fatal_err is success or one of SSL_SETUP_FAILED, SSL_COMM_FAILED
\* and SSL_NEGOTIATE_IN_PROGRESS: AGAIN, WAIT_CONN, EOF and the statuses
\* of the source streams are never stored in it.
C30_FatalErrValues ==
    ssl.fatal_err \in {APR_SUCCESS, SERF_ERROR_SSL_SETUP_FAILED,
                       SERF_ERROR_SSL_COMM_FAILED,
                       SERF_ERROR_SSL_NEGOTIATE_IN_PROGRESS}

\* a call has returned a flow-control status or a pending certificate
\* error after reaching the engine, and nothing is latched
C30_Witness ==
    /\ sret.called > 0
    /\ sret.status \in {APR_EAGAIN, APR_EOF, SERF_ERROR_WAIT_CONN,
                        SERF_ERROR_SSL_CERT_FAILED}
    /\ ssl.fatal_err = APR_SUCCESS


\* C31: while want_read is set and encrypt_pending is empty, ssl_encrypt
\* takes no plaintext from the encrypt source, makes no engine write and
\* returns a status other than success with no bytes; want_read becomes
\* set only in an ssl_encrypt whose engine write reported WANT_READ, and
\* becomes clear only in an ssl_decrypt or in an engine call (where the
\* read hook runs).
C31_WantReadBlocks ==
    [][(enc'.later = enc.later /\ dec'.later = dec.later) =>
         /\ (/\ sret'.op = "ssl_encrypt"
             /\ ssl.want_read
             /\ ssl.encrypt_pending = <<>>)
               => /\ enc' = enc
                  /\ sret'.called = 0
                  /\ sret'.status # APR_SUCCESS
                  /\ sret'.data = <<>>
         /\ (~ssl.want_read /\ ssl'.want_read)
               => /\ sret'.op = "ssl_encrypt"
                  /\ sret'.called > 0
                  /\ ssl'.ssl_err = "WANT_READ"
         /\ (ssl.want_read /\ ~ssl'.want_read)
               => \/ sret'.op = "ssl_decrypt"
                  \/ sret'.called > 0]_vars

\* ssl_encrypt was called with want_read set, nothing pending and
\* plaintext waiting on the encrypt source, and returned without an engine
\* call
C31_Witness ==
    /\ sret.op = "ssl_encrypt"
    /\ ssl.want_read
    /\ ssl.encrypt_pending = <<>>
    /\ ssl.fatal_err = APR_SUCCESS
    /\ sret.called = 0
    /\ sret.data = <<>>
    /\ sret.status # APR_SUCCESS
    /\ enc.data # <<>>

C33_ActiveSourceIsAggregate ==
    (Usable(life) /\ life.act # NoBucket) => life.agg

\* C34: no read through a bucket of a live context reaches the write hook
\* with encrypt_pending absent, whatever buckets were created and destroyed
\* before.
C34_PendingLiveAtHook ==
    ~life.io.nullPending

\* C35: no read through a bucket of a live context makes the read hook
\* read a decrypt source that was destroyed, and while the context is in
\* use decrypt.stream does not refer to a destroyed bucket.
C35_NoReadOfDestroyedSource ==
    /\ ~life.io.stale
    /\ (Usable(life) /\ life.made) => life.dec \notin life.gone

\* C36: the destroy of an encrypt bucket destroys the stream that bucket
\* was created over and no other; when that stream is not the active
\* source, the active source and its encrypt_pending stay as they are; and
\* no stream is destroyed twice.
C36_DestroyOwnStreamOnly ==
    /\ [](~life.twice)
    /\ [][(life'.calls # life.calls /\ life'.op = "encrypt_destroy"
             /\ ~life'.crashed)
            => /\ life'.gone \ life.gone = {life'.arg}
               /\ life'.arg # life.act
                     => /\ life'.act = life.act
                        /\ life'.pending = life.pending]_vars

\* C37: while the parser reads lines, the bytes the stream's readline
\* hands to fetch_line are appended to the line buffer (less the line
\* ending), whatever status comes with them; and once the stream of a
\* response that ends with its header block is read to the end, the parser
\* is in the body state.
C37_NoInputLost ==
    /\ (CleanStart /\ ~errSeen /\ ctx.state # "STATE_BODY"
          /\ ctx.lstate # "LINE_CRLF_SPLIT")
         => LET c    == IF ctx.lstate = "LINE_READY"
                        THEN [ctx EXCEPT !.lstate = "LINE_EMPTY",
                                         !.line_used = 0]
                        ELSE ctx
                rl   == StreamReadline(c.stream, SERF_NEWLINE_ANY)
                keep == KeptLen(rl.found, Len(rl.data))
                f    == FetchRead(c, rl)
            IN (rl.data # <<>> /\ ~LineOverflows(c, Len(rl.data)))
                  => /\ f.c.line_used >= c.line_used + keep
                     /\ SubSeq(LineText(f.c), c.line_used + 1,
                               c.line_used + keep)
                           = SubSeq(rl.data, 1, keep)
    /\ (CleanStart /\ ~errSeen /\ alloc.input.name = "cl_zero"
          /\ Unread(ctx) = 0)
         => ctx.state = "STATE_BODY"

\* C38: the scan over the colon and the white space of a header line never
\* reads the line buffer at or after index line_used, and the length of
\* the value, line_used less the index where the value starts, is never
\* negative.
C38_ValueScanInBounds ==
    CleanStart => (~ctx.scan.over /\ ~ctx.scan.neg)

\* C39: when the verification hook accepts a certificate, every callback
\* it consulted for that certificate (the server-cert callback and the
\* chain callback, each if installed and due) returned success, and
\* pending_err is as it was before the call.
C39_AcceptNeedsEveryCallback ==
    (cert.call.op = "verify" /\ cert.call.result = Accepted)
       => LET a   == cert.call.args
              due == a.depth = 0 \/ CertFailures(a) # {}
          IN /\ (cert.call.before.server_cert_callback /\ due)
                   => a.cert_answer = APR_SUCCESS
             /\ (cert.call.before.server_cert_chain_callback /\ due)
                   => a.chain_answer = APR_SUCCESS
             /\ cert.c.pending_err = cert.call.before.pending_err

\* C40: a destroy of the response bucket, in whatever state, frees the
\* reason string only when a status line was parsed and stored, frees
\* every stored header entry once, destroys the underlying stream once
\* and returns.
C40_DestroySafe ==
    (CleanStart /\ ret.op = "destroy")
       => /\ ret.status = APR_SUCCESS
          /\ ret.freed.reason \in {"none", "stored"}
          /\ ret.freed.reason = "stored" => ctx.sl_set
          /\ ret.freed.hdrs = Len(ctx.hdrs)
          /\ ret.freed.stream = 1

=============================================================================
